---- MODULE Spec2Model ----
(***************************************************************************)
(* The trusted-unwrap pipeline of secure-ai-model: the start-up trust gate *)
(* of main.py (check_integrity, detect_and_block_debugger,                 *)
(* detect_malicious_modules of scripts/code_protection.py), the hybrid     *)
(* unwrapper of scripts/decrypt_model.py and the benchmark loop of main.py.*)
(*                                                                         *)
(* A Python str is a sequence of one-character strings, bytes a sequence   *)
(* of integers 0..255, None the empty sequence and a present value x the   *)
(* one-element sequence <<x>>.  The lines the program prints are written   *)
(* without the accents of their fixed text; the names, paths and error     *)
(* texts the program puts into a line are in it as they are.               *)
(***************************************************************************)
EXTENDS Integers, Sequences, FiniteSets, TLC

None == <<>>
Some(x) == <<x>>

(* ------------------------------ str ----------------------------------- *)

\* The characters of the model are those of ASCII and of the Latin-1
\* Supplement (U+0080 to U+00FF).  UpperCase lists the ones str.lower()
\* changes, LowerCase what it makes of each: A to Z, and U+00C0 to U+00DE
\* without the multiplication sign U+00D7.
UpperCase ==
  <<"A","B","C","D","E","F","G","H","I","J","K","L","M",
    "N","O","P","Q","R","S","T","U","V","W","X","Y","Z",
    "À","Á","Â","Ã","Ä","Å","Æ","Ç","È","É","Ê","Ë","Ì",
    "Í","Î","Ï","Ð","Ñ","Ò","Ó","Ô","Õ","Ö","Ø","Ù","Ú",
    "Û","Ü","Ý","Þ">>

LowerCase ==
  <<"a","b","c","d","e","f","g","h","i","j","k","l","m",
    "n","o","p","q","r","s","t","u","v","w","x","y","z",
    "à","á","â","ã","ä","å","æ","ç","è","é","ê","ë","ì",
    "í","î","ï","ð","ñ","ò","ó","ô","õ","ö","ø","ù","ú",
    "û","ü","ý","þ">>

\* c.lower() for a character c
LowerChar(c) ==
  IF \E ix \in DOMAIN UpperCase : UpperCase[ix] = c
  THEN LowerCase[CHOOSE ix \in DOMAIN UpperCase : UpperCase[ix] = c]
  ELSE c

\* str.lower()
lower(s) == [ix \in 1..Len(s) |-> LowerChar(s[ix])]

\* sub in s
str_in(sub, s) ==
  \E ix \in 0..(Len(s) - Len(sub)) :
    \A k \in 1..Len(sub) : s[ix + k] = sub[k]

\* s.startswith(p)
startswith(s, p) ==
  /\ Len(p) <= Len(s)
  /\ \A k \in 1..Len(p) : s[k] = p[k]

RECURSIVE format_str(_)
\* a str as an f-string puts it into a printed line
format_str(s) == IF s = <<>> THEN "" ELSE s[1] \o format_str(Tail(s))

RECURSIVE str_join(_, _)
\* sep.join(parts)
str_join(sep, parts) ==
  IF parts = <<>> THEN <<>>
  ELSE IF Len(parts) = 1 THEN parts[1]
  ELSE parts[1] \o sep \o str_join(sep, Tail(parts))

\* the least index of seq whose element satisfies P, 0 when there is none
FirstIndex(seq, P(_)) ==
  IF \E ix \in DOMAIN seq : P(seq[ix])
  THEN CHOOSE ix \in DOMAIN seq : P(seq[ix]) /\ \A j \in 1..(ix - 1) : ~P(seq[j])
  ELSE 0

(* ---------------------------- os.path --------------------------------- *)

RECURSIVE SplitFrom(_, _, _)
\* path.split("/") from position i on, cur the segment being read
SplitFrom(s, ix, cur) ==
  IF ix > Len(s) THEN <<cur>>
  ELSE IF s[ix] = "/" THEN <<cur>> \o SplitFrom(s, ix + 1, <<>>)
  ELSE SplitFrom(s, ix + 1, Append(cur, s[ix]))

RECURSIVE NormFrom(_, _, _, _)
\* the loop of posixpath.normpath over the segments of a path: empty and
\* "." segments are dropped; ".." removes the segment before it, is dropped
\* at the root of a rooted path, and is kept at the start of a relative path
\* and after another ".."
NormFrom(segs, ix, out, rooted) ==
  IF ix > Len(segs) THEN out
  ELSE IF segs[ix] = <<>> \/ segs[ix] = <<".">> THEN NormFrom(segs, ix + 1, out, rooted)
  ELSE IF \/ segs[ix] # <<".", ".">>
          \/ (~rooted /\ out = <<>>)
          \/ (out # <<>> /\ out[Len(out)] = <<".", ".">>)
       THEN NormFrom(segs, ix + 1, Append(out, segs[ix]), rooted)
  ELSE IF out # <<>> THEN NormFrom(segs, ix + 1, SubSeq(out, 1, Len(out) - 1), rooted)
  ELSE NormFrom(segs, ix + 1, out, rooted)

\* posixpath.normpath(path): one leading slash is kept, exactly two are
\* kept as two, three or more become one; the empty result is "."
normpath(path) ==
  LET initial_slashes ==
        IF startswith(path, <<"/", "/">>) /\ ~startswith(path, <<"/", "/", "/">>) THEN 2
        ELSE IF startswith(path, <<"/">>) THEN 1
        ELSE 0
      comps == NormFrom(SplitFrom(path, 1, <<>>), 1, <<>>, initial_slashes # 0)
      joined == [k \in 1..initial_slashes |-> "/"] \o str_join(<<"/">>, comps)
  IN  IF joined = <<>> THEN <<".">> ELSE joined

\* posixpath.join(a, b): an absolute b replaces a; an empty a, or one that
\* ends in a slash, takes b without a separator
path_join(a, b) ==
  IF startswith(b, <<"/">>) THEN b
  ELSE IF a = <<>> \/ a[Len(a)] = "/" THEN a \o b
  ELSE a \o <<"/">> \o b

\* os.path.abspath(path) in a process whose working directory is cwd
abspath(path, cwd) ==
  normpath(IF startswith(path, <<"/">>) THEN path ELSE path_join(cwd, path))

\* os.path.dirname(path)
dirname(path) ==
  LET cut == IF \E ix \in DOMAIN path : path[ix] = "/"
             THEN CHOOSE ix \in DOMAIN path :
                    path[ix] = "/" /\ \A j \in (ix + 1)..Len(path) : path[j] # "/"
             ELSE 0
      head == SubSeq(path, 1, cut)
  IN  IF head # <<>> /\ \E ix \in DOMAIN head : head[ix] # "/"
      THEN SubSeq(head, 1, CHOOSE ix \in DOMAIN head :
                              head[ix] # "/" /\ \A j \in (ix + 1)..Len(head) : head[j] = "/")
      ELSE head

(* ------------------ scripts/code_protection.py ------------------------ *)

\* what a gate function leaves behind: the lines it printed and whether it
\* returned (exit = 0) or ended the process through sys.exit(1) (exit = 1)
Returned == [exit |-> 0, out |-> <<>>]
Exited(msg) == [exit |-> 1, out |-> <<msg>>]

\* sub-check 1: sys.gettrace() is not None
trace_hook(h) == h.gettrace

\* sub-check 2: a frame of inspect.stack() whose lower-cased filename
\* contains "pdb", "pydevd" or "debug"
stack_debugger(h) ==
  \E f \in DOMAIN h.stack :
    \E d \in {<<"p","d","b">>, <<"p","y","d","e","v","d">>, <<"d","e","b","u","g">>} : str_in(d, lower(h.stack[f]))

\* sub-check 3: "debugpy" in sys.modules
debugpy_loaded(mods) == \E m \in DOMAIN mods : mods[m].name = <<"d","e","b","u","g","p","y">>

\* sub-check 4: a thread of threading.enumerate() named pydevd...
pydevd_thread(h) ==
  \E t \in DOMAIN h.threads : startswith(h.threads[t], <<"p","y","d","e","v","d">>)

\* sub-check 5 is reached only when os.name == "nt"
platform_query_runs(h) == h.os_name = "nt"

\* sub-check 5: ctypes.windll.kernel32.IsDebuggerPresent() != 0; an
\* exception of the call is swallowed by "except Exception: pass"
debugger_present(h) == h.IsDebuggerPresent = "nonzero"

\* the names sub-check 6 looks up, in the order of the loop
debug_env_vars == <<"PYTHONBREAKPOINT", "PYDEV_DEBUG">>

\* if os.getenv(var): the value is set and not the empty string
getenv_truthy(h, var) == h.environ[var] # None /\ h.environ[var][1] # <<>>

\* sub-check 6: the first name of debug_env_vars that fires, 0 when none does
debug_env_var(h) == FirstIndex(debug_env_vars, LAMBDA v : getenv_truthy(h, v))

\* the threshold of sub-check 7, 0.01 s, in microseconds
TimingThreshold == 10000

\* sub-check 7: (t2 - t1) > 0.01 around the 10000-iteration loop
slow_loop(h) == h.loop_time > TimingThreshold

\* detect_and_block_debugger with sub-checks 3 and 4 in the other order
detect_and_block_debugger_thread_first(h, mods) ==
  LET upto4 == <<1, 2, 4, 3>>
      upto5 == IF platform_query_runs(h) THEN <<1, 2, 4, 3, 5>> ELSE upto4
  IN
  IF trace_hook(h)
  THEN [evaluated |-> <<1>>] @@ Exited("Debugger detectado via sys.gettrace(). Abortando.")
  ELSE IF stack_debugger(h)
  THEN [evaluated |-> <<1, 2>>] @@ Exited("[!] Debugger detectado via stack trace!")
  ELSE IF pydevd_thread(h)
  THEN [evaluated |-> <<1, 2, 4>>] @@ Exited("Debugger detectado via thread pydevd. Abortando.")
  ELSE IF debugpy_loaded(mods)
  THEN [evaluated |-> upto4]
         @@ Exited("Debugger detectado via modulo debugpy carregado. Abortando.")
  ELSE IF platform_query_runs(h) /\ debugger_present(h)
  THEN [evaluated |-> upto5]
         @@ Exited("Debugger detectado via IsDebuggerPresent. Abortando.")
  ELSE IF debug_env_var(h) # 0
  THEN [evaluated |-> Append(upto5, 6)]
         @@ Exited(IF debug_env_var(h) = 1
                   THEN "Debugger detectado via variavel PYTHONBREAKPOINT. Abortando."
                   ELSE "Debugger detectado via variavel PYDEV_DEBUG. Abortando.")
  ELSE IF slow_loop(h)
  THEN [evaluated |-> upto5 \o <<6, 7>>]
         @@ Exited("Debugger detectado via atraso suspeito. Abortando.")
  ELSE [evaluated |-> upto5 \o <<6, 7>>] @@ Returned

\* detect_and_block_debugger whose handler around sub-check 5 is a bare
\* "except:": it swallows the SystemExit of sys.exit(1) as it swallows an
\* error of the query, so the line is printed and sub-checks 6 and 7 follow
detect_and_block_debugger_swallows_exit(h, mods) ==
  LET upto4 == <<1, 2, 3, 4>>
      upto5 == IF platform_query_runs(h) THEN <<1, 2, 3, 4, 5>> ELSE upto4
      swallowed == IF platform_query_runs(h) /\ debugger_present(h)
                   THEN <<"Debugger detectado via IsDebuggerPresent. Abortando.">>
                   ELSE <<>>
  IN
  IF trace_hook(h)
  THEN [evaluated |-> <<1>>] @@ Exited("Debugger detectado via sys.gettrace(). Abortando.")
  ELSE IF stack_debugger(h)
  THEN [evaluated |-> <<1, 2>>] @@ Exited("[!] Debugger detectado via stack trace!")
  ELSE IF debugpy_loaded(mods)
  THEN [evaluated |-> <<1, 2, 3>>]
         @@ Exited("Debugger detectado via modulo debugpy carregado. Abortando.")
  ELSE IF pydevd_thread(h)
  THEN [evaluated |-> upto4] @@ Exited("Debugger detectado via thread pydevd. Abortando.")
  ELSE IF debug_env_var(h) # 0
  THEN [evaluated |-> Append(upto5, 6),
        exit |-> 1,
        out |-> Append(swallowed,
                       IF debug_env_var(h) = 1
                       THEN "Debugger detectado via variavel PYTHONBREAKPOINT. Abortando."
                       ELSE "Debugger detectado via variavel PYDEV_DEBUG. Abortando.")]
  ELSE IF slow_loop(h)
  THEN [evaluated |-> upto5 \o <<6, 7>>,
        exit |-> 1,
        out |-> Append(swallowed, "Debugger detectado via atraso suspeito. Abortando.")]
  ELSE [evaluated |-> upto5 \o <<6, 7>>, exit |-> 0, out |-> swallowed]

\* The sub-checks in the order the function reaches them, each with the
\* line it prints when it fires.
detect_and_block_debugger(h, mods) ==
  LET upto4 == <<1, 2, 3, 4>>
      upto5 == IF platform_query_runs(h) THEN <<1, 2, 3, 4, 5>> ELSE upto4
  IN
  IF trace_hook(h)
  THEN [evaluated |-> <<1>>] @@ Exited("Debugger detectado via sys.gettrace(). Abortando.")
  ELSE IF stack_debugger(h)
  THEN [evaluated |-> <<1, 2>>] @@ Exited("[!] Debugger detectado via stack trace!")
  ELSE IF debugpy_loaded(mods)
  THEN [evaluated |-> <<1, 2, 3>>]
         @@ Exited("Debugger detectado via modulo debugpy carregado. Abortando.")
  ELSE IF pydevd_thread(h)
  THEN [evaluated |-> upto4] @@ Exited("Debugger detectado via thread pydevd. Abortando.")
  ELSE IF platform_query_runs(h) /\ debugger_present(h)
  THEN [evaluated |-> upto5]
         @@ Exited("Debugger detectado via IsDebuggerPresent. Abortando.")
  ELSE IF debug_env_var(h) # 0
  THEN [evaluated |-> Append(upto5, 6)]
         @@ Exited(IF debug_env_var(h) = 1
                   THEN "Debugger detectado via variavel PYTHONBREAKPOINT. Abortando."
                   ELSE "Debugger detectado via variavel PYDEV_DEBUG. Abortando.")
  ELSE IF slow_loop(h)
  THEN [evaluated |-> upto5 \o <<6, 7>>]
         @@ Exited("Debugger detectado via atraso suspeito. Abortando.")
  ELSE [evaluated |-> upto5 \o <<6, 7>>] @@ Returned

suspicious_modules ==
  << <<"f","r","i","d","a">>, <<"p","y","d","b","g">>, <<"c","t","y","p","e","s","h","o","o","k">>, <<"p","y","h","o","o","k">>, <<"p","y","d","e","v","d">>, <<"w","i","n","a","p","p","d","b","g">>,
     <<"p","y","i","n","j","e","c","t","o","r">>, <<"i","n","j","e","c","t","o","r">>, <<"p","y","m","e","m">>, <<"p","t","r","a","c","e">>, <<"v","o","l","a","t","i","l","i","t","y">>, <<"h","e","x","d","u","m","p">>,
     <<"p","y","x","h","o","o","k">>, <<"c","a","p","s","t","o","n","e">>, <<"k","e","y","s","t","o","n","e">>, <<"u","n","i","c","o","r","n">>, <<"t","r","a","c","e","r">>, <<"h","o","o","k","e","r">>,
     <<"i","p","d","b">>, <<"r","p","d","b">>, <<"r","e","m","o","t","e","_","p","d","b">>, <<"p","y","d","e","b","u","g","g","e","r">>, <<"p","y","t","r","a","c","e">>, <<"p","y","s","p","o","o","f","e","r">>,
     <<"p","y","t","h","o","n","_","h","o","o","k","e","r">>, <<"h","u","n","t","e","r">>, <<"s","n","o","o","p">>, <<"m","a","n","h","o","l","e">>, <<"x","h","o","o","k">>, <<"p","y","r","e","b","o","x">>,
     <<"o","b","j","d","u","m","p">> >>

suspicious_processes ==
  << <<"f","r","i","d","a","-","s","e","r","v","e","r">>, <<"f","r","i","d","a","-","t","r","a","c","e">>, <<"o","l","l","y","d","b","g">>, <<"i","d","a","6","4">>, <<"i","d","a","3","2">>, <<"x","6","4","d","b","g">>,
     <<"x","3","2","d","b","g">>, <<"w","i","r","e","s","h","a","r","k">>, <<"d","n","s","p","y">>, <<"c","h","e","a","t","e","n","g","i","n","e">>, <<"g","d","b">>, <<"r","a","d","a","r","e","2">>,
     <<"i","m","m","u","n","i","t","y","d","e","b","u","g","g","e","r">> >>

\* the name test without mod.lower()
suspicious_name_case_sensitive(m) ==
  \E s \in DOMAIN suspicious_modules : str_in(suspicious_modules[s], m.name)

\* any(s in mod_lower for s in suspicious_modules)
suspicious_name(m) ==
  \E s \in DOMAIN suspicious_modules : str_in(suspicious_modules[s], lower(m.name))

\* allowed_paths: the standard library, DLLs, libs and site-packages of the
\* interpreter, lower-cased
allowed_paths(h) ==
  << lower(h.stdlib),
     path_join(lower(h.base_prefix), <<"d","l","l","s">>),
     path_join(lower(h.base_prefix), <<"l","i","b","s">>),
     path_join(path_join(lower(h.base_prefix), <<"l","i","b">>), <<"s","i","t","e","-","p","a","c","k","a","g","e","s">>) >>

\* the path of a module without os.path.abspath
module_path_unresolved(m, h) == lower(m.file[1])

\* path = os.path.abspath(path).lower()
module_path(m, h) == lower(abspath(m.file[1], h.cwd))

\* the three "continue" exemptions and the allowed roots of the path loop
path_exempt(m, h) ==
  \/ m.name = <<"_","_","m","a","i","n","_","_">>
  \/ str_in(<<"p","y","a","r","m","o","r","_","r","u","n","t","i","m","e">>, m.name)
  \/ str_in(<<"d","i","s","t","_","p","r","o","t","e","c","t","e","d">>, module_path(m, h))

path_allowed(m, h) ==
  \E p \in DOMAIN allowed_paths(h) : startswith(module_path(m, h), allowed_paths(h)[p])

\* a module the path loop reports: it has a __file__, is not exempt and
\* lies under no allowed path
suspicious_path(m, h) ==
  /\ m.file # None
  /\ ~path_exempt(m, h)
  /\ ~path_allowed(m, h)

\* name = (proc.info["name"] or "").lower()
proc_name(p) == IF p.name = None THEN <<>> ELSE lower(p.name[1])

\* cmd = " ".join(proc.info["cmdline"] or []).lower()
proc_cmd(p) == IF p.cmdline = None THEN <<>> ELSE lower(str_join(<<" ">>, p.cmdline[1]))

\* the body of the process loop for one process: psutil.NoSuchProcess and
\* psutil.AccessDenied raised while its fields are read are caught and the
\* loop continues with the next process
suspicious_process(p) ==
  /\ p.error = "none"
  /\ \E s \in DOMAIN suspicious_processes :
       \/ str_in(suspicious_processes[s], proc_name(p))
       \/ str_in(suspicious_processes[s], proc_cmd(p))

\* detect_malicious_modules with the try around the whole process loop: the
\* first process that raises ends the enumeration
detect_malicious_modules_stops_at_error(mods, procs, h) ==
  LET byName == FirstIndex(mods, suspicious_name)
      byPath == FirstIndex(mods, LAMBDA m : suspicious_path(m, h))
      failed == FirstIndex(procs, LAMBDA p : p.error # "none")
      seen == IF failed = 0 THEN procs ELSE SubSeq(procs, 1, failed - 1)
      byProc == FirstIndex(seen, suspicious_process)
  IN
  IF byName # 0
  THEN [check |-> "module_name", at |-> byName]
         @@ Exited("[!] Modulo suspeito detectado: " \o format_str(mods[byName].name)
                     \o ". Abortando.")
  ELSE IF byPath # 0
  THEN [check |-> "module_path", at |-> byPath]
         @@ Exited("[!] Modulo " \o format_str(mods[byPath].name)
                     \o " carregado de caminho suspeito: "
                     \o format_str(module_path(mods[byPath], h)))
  ELSE IF byProc # 0
  THEN [check |-> "process", at |-> byProc]
         @@ Exited("[!] Processo suspeito detectado: "
                     \o format_str(IF proc_name(seen[byProc]) # <<>>
                                   THEN proc_name(seen[byProc]) ELSE proc_cmd(seen[byProc]))
                     \o ". Abortando.")
  ELSE [check |-> "none", at |-> 0] @@ Returned

\* detect_malicious_modules(): the name loop over sys.modules, then the path
\* loop, then the loop over psutil.process_iter; check and at name the loop
\* and the entry that ended the process
detect_malicious_modules(mods, procs, h) ==
  LET byName == FirstIndex(mods, suspicious_name)
      byPath == FirstIndex(mods, LAMBDA m : suspicious_path(m, h))
      byProc == FirstIndex(procs, suspicious_process)
  IN
  IF byName # 0
  THEN [check |-> "module_name", at |-> byName]
         @@ Exited("[!] Modulo suspeito detectado: " \o format_str(mods[byName].name)
                     \o ". Abortando.")
  ELSE IF byPath # 0
  THEN [check |-> "module_path", at |-> byPath]
         @@ Exited("[!] Modulo " \o format_str(mods[byPath].name)
                     \o " carregado de caminho suspeito: "
                     \o format_str(module_path(mods[byPath], h)))
  ELSE IF byProc # 0
  THEN [check |-> "process", at |-> byProc]
         @@ Exited("[!] Processo suspeito detectado: "
                     \o format_str(IF proc_name(procs[byProc]) # <<>>
                                   THEN proc_name(procs[byProc]) ELSE proc_cmd(procs[byProc]))
                     \o ". Abortando.")
  ELSE [check |-> "none", at |-> 0] @@ Returned

\* a file as open(path, "rb").read() finds it: error = "none" and its bytes,
\* or the OSError the open raises
File(data) == [error |-> "none", data |-> data]
Unreadable(e) == [error |-> e, data |-> <<>>]

(* ------------------ AES-GCM (cryptography's AESGCM) ------------------- *)
(* NIST SP 800-38D with a 96-bit nonce, a 128-bit tag and no additional   *)
(* authenticated data.  A block is 16 bytes; in GHASH it is the sequence  *)
(* of its 128 bits, bit k the coefficient of x^(k-1).                     *)

BlockBytes == 16
BlockBits == 8 * BlockBytes
NonceBytes == 12
TagBytes == BlockBytes

Tuple(f, n) == SubSeq(f, 1, n)

\* bit j (1 the most significant) of byte b
BitOf(b, j) == (b \div (2 ^ (8 - j))) % 2

BytesToBits(bs) ==
  Tuple([k \in 1..(8 * Len(bs)) |-> BitOf(bs[((k - 1) \div 8) + 1], ((k - 1) % 8) + 1)],
        8 * Len(bs))

BitsToBytes(bits) ==
  Tuple([ix \in 1..(Len(bits) \div 8) |->
           128 * bits[8 * ix - 7] + 64 * bits[8 * ix - 6] + 32 * bits[8 * ix - 5]
           + 16 * bits[8 * ix - 4] + 8 * bits[8 * ix - 3] + 4 * bits[8 * ix - 2]
           + 2 * bits[8 * ix - 1] + bits[8 * ix]],
        Len(bits) \div 8)

xor_bits(a, b) == Tuple([k \in 1..Len(a) |-> (a[k] + b[k]) % 2], Len(a))

\* a XOR b over the length of a (b at least as long)
xor_bytes(a, b) == BitsToBytes(xor_bits(BytesToBits(a), BytesToBits(SubSeq(b, 1, Len(a)))))

\* the carry-less product of two blocks, coefficients of x^0 .. x^254
clmul(a, b) ==
  LET A == {ix \in 1..BlockBits : a[ix] = 1}
      B == {j \in 1..BlockBits : b[j] = 1}
  IN  Tuple([k \in 1..(2 * BlockBits - 1) |->
               Cardinality({ix \in A : (k + 1 - ix) \in B}) % 2],
            2 * BlockBits - 1)

\* one reduction step modulo x^128 + x^7 + x^2 + x + 1: the coefficients
\* from x^128 up are multiplied by x^7 + x^2 + x + 1 and added to the rest
gf_fold(c) ==
  LET hi(j) == IF j >= 1 /\ BlockBits + j <= Len(c) THEN c[BlockBits + j] ELSE 0
      lo(k) == IF k <= BlockBits THEN c[k] ELSE 0
      n == IF Len(c) - BlockBits + 7 > BlockBits THEN Len(c) - BlockBits + 7 ELSE BlockBits
  IN  Tuple([k \in 1..n |-> (lo(k) + hi(k) + hi(k - 1) + hi(k - 2) + hi(k - 7)) % 2], n)

\* multiplication in GF(2^128)
gf_mul(a, b) == gf_fold(gf_fold(clmul(a, b)))

ZeroBytes(n) == Tuple([ix \in 1..n |-> 0], n)

\* the 16-byte blocks of data, the last one padded with zero bytes
Blocks(data) ==
  Tuple([ix \in 1..((Len(data) + BlockBytes - 1) \div BlockBytes) |->
           LET part == SubSeq(data, BlockBytes * (ix - 1) + 1,
                              IF BlockBytes * ix <= Len(data) THEN BlockBytes * ix ELSE Len(data))
           IN  part \o ZeroBytes(BlockBytes - Len(part))],
        (Len(data) + BlockBytes - 1) \div BlockBytes)

\* n as 8 big-endian bytes
UInt64(n) ==
  <<0, 0, 0, 0, (n \div 16777216) % 256, (n \div 65536) % 256, (n \div 256) % 256, n % 256>>

RECURSIVE ghash_from(_, _, _, _)
ghash_from(H, blocks, ix, y) ==
  IF ix > Len(blocks) THEN y
  ELSE ghash_from(H, blocks, ix + 1, gf_mul(xor_bits(y, BytesToBits(blocks[ix])), H))

\* GHASH_H over the padded ciphertext and the length block (no AAD)
ghash(H, ciphertext) ==
  BitsToBytes(ghash_from(BytesToBits(H),
                         Blocks(ciphertext) \o <<UInt64(0) \o UInt64(8 * Len(ciphertext))>>,
                         1, BytesToBits(ZeroBytes(BlockBytes))))

\* the counter block nonce || n (32-bit big-endian)
CounterBlock(nonce, n) ==
  nonce \o <<(n \div 16777216) % 256, (n \div 65536) % 256, (n \div 256) % 256, n % 256>>

\* AES-128 (FIPS 197) at the key and block pairs the model uses
AesTable ==
  { << <<1, 2, 3, 4, 5, 6, 7, 8, 9, 10, 11, 12, 13, 14, 15, 16>>,
       <<0, 0, 0, 0, 0, 0, 0, 0, 0, 0, 0, 0, 0, 0, 0, 0>>,
       <<219, 241, 132, 17, 46, 185, 17, 22, 89, 113, 43, 175, 207, 242, 171, 36>> >>,
    << <<1, 2, 3, 4, 5, 6, 7, 8, 9, 10, 11, 12, 13, 14, 15, 16>>,
       <<0, 0, 0, 0, 0, 0, 0, 0, 0, 0, 0, 1, 0, 0, 0, 1>>,
       <<11, 155, 100, 129, 138, 85, 87, 69, 88, 118, 212, 137, 64, 100, 115, 67>> >>,
    << <<1, 2, 3, 4, 5, 6, 7, 8, 9, 10, 11, 12, 13, 14, 15, 16>>,
       <<0, 0, 0, 0, 0, 0, 0, 0, 0, 0, 0, 1, 0, 0, 0, 2>>,
       <<223, 92, 184, 212, 20, 206, 110, 51, 91, 136, 31, 186, 8, 181, 189, 151>> >>,
    << <<1, 2, 3, 4, 5, 6, 7, 8, 9, 10, 11, 12, 13, 14, 15, 16>>,
       <<0, 0, 0, 0, 0, 0, 0, 0, 0, 0, 0, 0, 0, 0, 0, 1>>,
       <<154, 122, 6, 25, 170, 194, 158, 108, 31, 43, 92, 71, 83, 213, 136, 243>> >>,
    << <<1, 2, 3, 4, 5, 6, 7, 8, 9, 10, 11, 12, 13, 14, 15, 16>>,
       <<0, 0, 0, 0, 0, 0, 0, 0, 0, 0, 0, 0, 0, 0, 0, 2>>,
       <<20, 44, 81, 201, 175, 44, 241, 217, 46, 137, 55, 196, 251, 193, 141, 122>> >>,
    << <<0, 0, 0, 0, 0, 0, 0, 0, 0, 0, 0, 0, 0, 0, 0, 0>>,
       <<0, 0, 0, 0, 0, 0, 0, 0, 0, 0, 0, 0, 0, 0, 0, 0>>,
       <<102, 233, 75, 212, 239, 138, 44, 59, 136, 76, 250, 89, 202, 52, 43, 46>> >>,
    << <<0, 0, 0, 0, 0, 0, 0, 0, 0, 0, 0, 0, 0, 0, 0, 0>>,
       <<0, 0, 0, 0, 0, 0, 0, 0, 0, 0, 0, 1, 0, 0, 0, 1>>,
       <<134, 91, 207, 140, 87, 227, 16, 93, 159, 82, 255, 223, 211, 73, 211, 68>> >>,
    << <<0, 0, 0, 0, 0, 0, 0, 0, 0, 0, 0, 0, 0, 0, 0, 0>>,
       <<0, 0, 0, 0, 0, 0, 0, 0, 0, 0, 0, 1, 0, 0, 0, 2>>,
       <<110, 1, 217, 48, 7, 136, 114, 189, 91, 50, 236, 148, 101, 253, 71, 152>> >>,
    << <<0, 0, 0, 0, 0, 0, 0, 0, 0, 0, 0, 0, 0, 0, 0, 0>>,
       <<0, 0, 0, 0, 0, 0, 0, 0, 0, 0, 0, 0, 0, 0, 0, 1>>,
       <<88, 226, 252, 206, 250, 126, 48, 97, 54, 127, 29, 87, 164, 231, 69, 90>> >>,
    << <<0, 0, 0, 0, 0, 0, 0, 0, 0, 0, 0, 0, 0, 0, 0, 0>>,
       <<0, 0, 0, 0, 0, 0, 0, 0, 0, 0, 0, 0, 0, 0, 0, 2>>,
       <<3, 136, 218, 206, 96, 182, 163, 146, 243, 40, 194, 185, 113, 178, 254, 120>> >>,
    << <<1, 2, 3, 4, 5, 6, 7, 8, 9, 10, 11, 12, 13, 14, 15, 16>>,
       <<0, 0, 0, 0, 0, 0, 0, 0, 0, 0, 0, 1, 0, 0, 0, 3>>,
       <<97, 184, 43, 47, 78, 227, 33, 119, 128, 193, 128, 114, 101, 231, 237, 104>> >> }

\* AES-128 of one block under key, on the blocks the model encrypts
AES128(key, block) == (CHOOSE e \in AesTable : e[1] = key /\ e[2] = block)[3]

\* GCTR: data XOR the key stream AES(key, nonce || first), AES(key, nonce || first + 1), ...
gctr(key, nonce, first, data) ==
  LET nblocks == (Len(data) + BlockBytes - 1) \div BlockBytes
      stream(ix) == AES128(key, CounterBlock(nonce, first + ((ix - 1) \div BlockBytes)))
  IN  Tuple([ix \in 1..Len(data) |->
               BitsToBytes(xor_bits(BytesToBits(<<data[ix]>>),
                                    BytesToBits(<<stream(ix)[((ix - 1) % BlockBytes) + 1]>>)))[1]],
            Len(data))

\* the tag of a ciphertext under (key, nonce)
gcm_tag(key, nonce, ciphertext) ==
  gctr(key, nonce, 1, ghash(AES128(key, ZeroBytes(BlockBytes)), ciphertext))

\* AESGCM(key).encrypt(nonce, data, None): ciphertext || tag
aesgcm_encrypt(key, nonce, data) ==
  LET c == gctr(key, nonce, 2, data)
  IN  c \o gcm_tag(key, nonce, c)

\* a function's result: a value it returned or the exception it raised
Value(v) == [raised |-> "none", value |-> v]
Raised(e) == [raised |-> e, value |-> <<>>]

\* AESGCM(key).decrypt(nonce, data, None): the plaintext, or InvalidTag when
\* data is shorter than a tag or its last 16 bytes are not the tag of the rest
aesgcm_decrypt(key, nonce, data) ==
  IF Len(data) < TagBytes THEN Raised("InvalidTag")
  ELSE LET c == SubSeq(data, 1, Len(data) - TagBytes)
           t == SubSeq(data, Len(data) - TagBytes + 1, Len(data))
       IN  IF gcm_tag(key, nonce, c) # t THEN Raised("InvalidTag")
           ELSE Value(gctr(key, nonce, 2, c))

(* ----------------- integrity (code_protection.py, embed_hash.py) ------ *)

\* hashlib.sha256(data).hexdigest() at the file contents the model hashes
Sha256Table ==
  { << <<>>,
       "e3b0c44298fc1c149afbf4c8996fb92427ae41e4649b934ca495991b7852b855" >>,
    << <<97>>,
       "ca978112ca1bbdcafac231b39a23dc4da786eff8147c4e72b9807785afee48bb" >>,
    << <<98>>,
       "3e23e8160039594a33894f6564e1b1348bbd7a0088d42c4acb73eeaed59c009d" >>,
    << <<97, 97>>,
       "961b6dd3ede3cb8ecbaacbd68de040cd78eb2ed5889130cceb4c49268ea4d506" >>,
    << <<97, 98>>,
       "fb8e20fc2e4c3f248c60c39bd652f3c1347298bb977b8b4d5903b85055620603" >>,
    << <<98, 97>>,
       "970f519c2cadbcefb1e81694f904bc6229dd2a8300e98c6d0d4fc4bfca584140" >>,
    << <<98, 98>>,
       "3b64db95cb55c763391c707108489ae18b4112d783300de38e033b4c98c3deaf" >>,
    << <<0, 0, 0, 0, 0, 0, 0, 0, 0, 0, 0, 1, 143, 93, 227, 195, 14, 162, 64, 239, 231, 179, 7, 210, 104, 10, 46, 40, 95, 30>>,
       "81c264c0dad329613b3c11b6891a2f6276151bbb69e524df99981d8a20a0b1b3" >>,
    << <<0, 0, 0, 0, 0, 0, 0, 0, 0, 0, 0, 1, 143, 94, 143, 97, 120, 74, 24, 17, 217, 122, 19, 70, 118, 129, 19, 250, 83, 25>>,
       "4faf674b759a151aeb35b8dcefa9e501d7483490abc078ae08a0f97321ffee36" >>,
    << <<0, 0, 0, 0, 0, 0, 0, 0, 0, 0, 0, 1, 143, 95, 171, 0, 170, 18, 47, 187, 204, 194, 224, 202, 124, 248, 7, 75, 168, 228>>,
       "583da0b91e8374bf1913257921a5d96e7254e6bdfa0b062eadb28cea820a5157" >>,
    << <<0, 0, 0, 0, 0, 0, 0, 0, 0, 0, 0, 1, 143, 88, 86, 37, 149, 154, 169, 237, 164, 232, 58, 110, 75, 151, 104, 94, 75, 23>>,
       "6b76d760ad51e18d690f1164f03e76ec794211177964d061aa98c4c53f41e3cd" >>,
    << <<0, 0, 0, 0, 0, 0, 0, 0, 0, 0, 0, 1, 143, 89, 114, 68, 71, 194, 158, 71, 177, 80, 201, 226, 65, 238, 124, 239, 176, 234>>,
       "ae2dc4b1eaba4eff96675cb6f85abb159aa7b5e6693f00e3e957cae5d053d9fd" >>,
    << <<0, 0, 0, 0, 0, 0, 0, 0, 0, 0, 0, 1, 143, 90, 30, 230, 49, 42, 198, 185, 143, 153, 221, 118, 95, 101, 65, 61, 188, 237>>,
       "336f1d48ed8b407925fa5c65b47e6782c1893974bce2b0641436da1be6d066b2" >>,
    << <<0, 0, 0, 0, 0, 0, 0, 0, 0, 0, 0, 1, 183, 57, 212, 184, 123, 139, 231, 166, 29, 238, 13, 0, 103, 217, 97, 169, 34, 50, 167, 31, 37>>,
       "fe42e7e33c446fbad53f7b6ddcec9899f007593d8ca5c94938076fba48dbf8a5" >>,
    << <<0, 0, 0, 0, 0, 0, 0, 0, 0, 0, 0, 1, 11, 155, 100, 129, 138, 85, 87, 69, 88, 118, 212, 137, 64, 100, 115, 67>>,
       "ee982ba44a0fa1a12f1d96cff0232fb98d844ee6014ef2d19c429fca649115a4" >>,
    << <<0, 0, 0, 0, 0, 0, 0, 0, 0, 0, 0, 1, 143, 93, 184, 213, 22, 205, 106, 54, 93, 143, 23, 179, 2, 190, 177, 154, 111, 192, 239, 116, 119, 47, 160, 27, 133, 127, 151, 220, 33, 117, 139, 31, 105>>,
       "9dcf55d0b19cc95f466b059a04609c29e3e55ee51ae057b0475ca553f814f04a" >>,
    << <<0, 0, 0, 0, 0, 0, 0, 0, 0, 0, 0, 0, 124, 73, 61, 165, 192, 117, 237, 161, 88, 77, 65, 174, 191, 17, 27, 206, 89, 53, 148, 177, 221>>,
       "dae2cc17fbcb4823b1aa5919760c1ac623bf0415678566b7ee5ca6ef420c5423" >>,
    << <<0, 0, 0, 0, 0, 0, 0, 0, 0, 0, 0, 1, 6, 100, 181, 92, 104, 241, 222, 116, 178, 150, 244, 255, 39, 108, 103, 195, 74, 32, 81, 77, 16>>,
       "2207901b65f042a007b528860243c45b60a7a12ddb904c824eed46abdbeb0c38" >>,
    << <<0, 0, 0, 0, 0, 0, 0, 0, 0, 0, 0, 0, 107, 237, 182, 162, 15, 252, 5, 243, 71, 93, 41, 3, 76, 170, 28, 200, 250, 54, 40, 195, 159>>,
       "56289966090920720716730f59d856e18fb0a91a4adbfc59748b14c1e4ad69d6" >>,
    << <<0, 0, 0, 0, 0, 0, 0, 0, 0, 0, 0, 1, 15, 93, 227, 195, 14, 162, 64, 239, 231, 179, 7, 210, 104, 10, 46, 40, 95, 30>>,
       "ad177738d7446c4c88f0142fac2281786cbacad4c5eff0d1b9d3575bf2a99fab" >>,
    << <<0, 0, 0, 0, 0, 0, 0, 0, 0, 0, 0, 1, 143, 93, 227, 195, 14, 162, 64, 239, 231, 179, 7, 210, 104, 10, 46, 40, 95, 31>>,
       "968a96dadfae60fa8ff05dfd9d9fa1760d44485a81f92df7c7d836f998d24e2b" >> }

sha256_hexdigest(data) == (CHOOSE e \in Sha256Table : e[1] = data)[2]

\* str(e) of the OSError open(path, "rb") raises
str_oserror(error, path) ==
  (IF error = "FileNotFoundError" THEN "[Errno 2] No such file or directory: '"
   ELSE "[Errno 13] Permission denied: '") \o path \o "'"

\* check_integrity with "except BaseException": the SystemExit of a mismatch
\* is caught as well and a second line is printed before the process ends
check_integrity_catch_all(files, file_path, expected_hash) ==
  IF files[file_path].error # "none"
  THEN Exited("Falha ao verificar integridade: "
                \o str_oserror(files[file_path].error, file_path))
  ELSE IF sha256_hexdigest(files[file_path].data) # expected_hash
  THEN [exit |-> 1, out |-> <<"Integridade comprometida. Abortando.",
                              "Falha ao verificar integridade: 1">>]
  ELSE Returned

\* check_integrity with "except Exception: pass": a file that cannot be
\* read is let through
check_integrity_swallow_read_error(files, file_path, expected_hash) ==
  IF files[file_path].error # "none"
  THEN Returned
  ELSE IF sha256_hexdigest(files[file_path].data) # expected_hash
  THEN Exited("Integridade comprometida. Abortando.")
  ELSE Returned

\* check_integrity(file_path, expected_hash) on the files of fs: an OSError
\* of open/read is caught by "except Exception" and ends the process like a
\* mismatch does; the SystemExit of the mismatch is not an Exception and
\* leaves the try block
check_integrity(files, file_path, expected_hash) ==
  IF files[file_path].error # "none"
  THEN Exited("Falha ao verificar integridade: "
                \o str_oserror(files[file_path].error, file_path))
  ELSE IF sha256_hexdigest(files[file_path].data) # expected_hash
  THEN Exited("Integridade comprometida. Abortando.")
  ELSE Returned

\* the value generate_hash_registry_obfuscated writes for a file
registry_entry(data) == sha256_hexdigest(data)

\* path.is_file(): the file is there, whether or not it can be opened
is_file(file) == file.error # "FileNotFoundError"

\* the targets of generate_hash_registry_obfuscated that main.py checks, in
\* the order of its loop, each with the variable name derived from its path
registry_targets ==
  << [path |-> "main.py", name |-> "DIST_PROTECTED_MAIN_PY"],
     [path |-> "model/model.pth.enc", name |-> "MODEL_MODEL_PTH_ENC"],
     [path |-> "scripts/decrypt_model.py", name |-> "DIST_PROTECTED_SCRIPTS_DECRYPT_MODEL_PY"] >>

\* generate_hash_registry_obfuscated on the files of files: a target that is
\* no file is skipped and gets no name; the first target that is a file
\* and cannot be opened raises before anything is written; otherwise the
\* names written with their digests
generate_hash_registry_obfuscated(files) ==
  LET failed == FirstIndex(registry_targets,
                           LAMBDA t : is_file(files[t.path]) /\ files[t.path].error # "none")
      written == { k \in DOMAIN registry_targets : is_file(files[registry_targets[k].path]) }
  IN  IF failed # 0
      THEN Raised(files[registry_targets[failed].path].error)
      ELSE Value([ n \in { registry_targets[k].name : k \in written } |->
                     LET k == CHOOSE k \in written : registry_targets[k].name = n
                     IN  registry_entry(files[registry_targets[k].path].data) ])

\* the three check_integrity calls of main.py, in order: the file and the
\* name of hash_registry_obfuscated it is checked against
integrity_checks ==
  << [path |-> "main.py", name |-> "DIST_PROTECTED_MAIN_PY"],
     [path |-> "scripts/decrypt_model.py", name |-> "DIST_PROTECTED_SCRIPTS_DECRYPT_MODEL_PY"],
     [path |-> "model/model.pth.enc", name |-> "MODEL_MODEL_PTH_ENC"] >>

\* from hash_registry_obfuscated import (...) of main.py on the module reg
\* (None: there is no such module): the names bound, or the error raised
import_registry(reg) ==
  IF reg = None THEN Raised("ModuleNotFoundError")
  ELSE IF \E k \in DOMAIN integrity_checks : integrity_checks[k].name \notin DOMAIN reg[1]
  THEN Raised("ImportError")
  ELSE Value(reg[1])

(* ------------------- scripts/decrypt_model.py ------------------------- *)

\* key/private.pem and key/aes_key.enc.  RSA-OAEP is kept abstract: a
\* wrapped key names the key pair it was encrypted to and the key inside,
\* and padding_ok is FALSE for bytes that are no valid OAEP encryption
PrivatePem(pair) == [pem |-> TRUE, pair |-> pair]
BrokenPem == [pem |-> FALSE, pair |-> "none"]
Wrapped(pair, key) == [pair |-> pair, key |-> key, padding_ok |-> TRUE]
BrokenWrapped(pair, key) == [pair |-> pair, key |-> key, padding_ok |-> FALSE]

\* decrypt_aes_key(enc_key_path, private_key_path)
decrypt_aes_key(files, enc_key_path, private_key_path) ==
  IF files[enc_key_path].error # "none" THEN Raised(files[enc_key_path].error)
  ELSE IF files[private_key_path].error # "none" THEN Raised(files[private_key_path].error)
  ELSE LET enc_key == files[enc_key_path].data
           private_key == files[private_key_path].data
       IN  IF ~private_key.pem THEN Raised("ValueError")
           ELSE IF ~enc_key.padding_ok \/ enc_key.pair # private_key.pair
           THEN Raised("ValueError")
           ELSE Value(enc_key.key)

Min(a, b) == IF a <= b THEN a ELSE b

\* decrypt_model that decrypts in counter mode and drops the tag unverified
decrypt_model_unauthenticated(files, model_path, key) ==
  IF files[model_path].error # "none" THEN Raised(files[model_path].error)
  ELSE LET data == files[model_path].data
           nonce == SubSeq(data, 1, Min(NonceBytes, Len(data)))
           ciphertext == SubSeq(data, Min(NonceBytes, Len(data)) + 1, Len(data))
       IN  IF Len(key) \notin {16, 24, 32} THEN Raised("ValueError")
           ELSE IF Len(nonce) < 8 THEN Raised("ValueError")
           ELSE IF Len(ciphertext) < TagBytes THEN Raised("InvalidTag")
           ELSE Value(gctr(key, nonce, 2, SubSeq(ciphertext, 1, Len(ciphertext) - TagBytes)))

\* decrypt_model that takes the four bytes after the nonce for a length
\* header and decrypts what follows them
decrypt_model_skips_length_header(files, model_path, key) ==
  IF files[model_path].error # "none" THEN Raised(files[model_path].error)
  ELSE LET data == files[model_path].data
           nonce == SubSeq(data, 1, Min(NonceBytes, Len(data)))
           ciphertext == SubSeq(data, Min(NonceBytes + 4, Len(data)) + 1, Len(data))
       IN  IF Len(key) \notin {16, 24, 32} THEN Raised("ValueError")
           ELSE IF Len(nonce) < 8 THEN Raised("ValueError")
           ELSE aesgcm_decrypt(key, nonce, ciphertext)

\* decrypt_model(model_path, aes_key): nonce, ciphertext = data[:12], data[12:]
\* and AESGCM(aes_key).decrypt(nonce, ciphertext, None); AESGCM refuses a
\* key that is not 16, 24 or 32 bytes and a nonce shorter than 8 bytes
decrypt_model(files, model_path, key) ==
  IF files[model_path].error # "none" THEN Raised(files[model_path].error)
  ELSE LET data == files[model_path].data
           nonce == SubSeq(data, 1, Min(NonceBytes, Len(data)))
           ciphertext == SubSeq(data, Min(NonceBytes, Len(data)) + 1, Len(data))
       IN  IF Len(key) \notin {16, 24, 32} THEN Raised("ValueError")
           ELSE IF Len(nonce) < 8 THEN Raised("ValueError")
           ELSE aesgcm_decrypt(key, nonce, ciphertext)

\* torch.load(io.BytesIO(model_bytes), map_location=cpu).  The model does not
\* hold the container torch.save writes: a container is written as the byte
\* 80 followed by a code for the value torch.load returns for it.  type is
\* the type of that value, model the type of its "model" entry ("none": no
\* such key), fits whether the dict that would be given to load_state_dict
\* has the parameters of DetectionModel('yolov8n.yaml')
\* No bytes at all end the unpickler at once (EOFError, "Ran out of input").
\* For other bytes that are no container the exception depends on the bytes
\* and on the torch build (UnpicklingError, EOFError for a truncated pickle,
\* RuntimeError for a bad magic number or archive): it is h.unpickling_error,
\* an input of the host
torch_load(serialized, h) ==
  IF serialized = <<>> THEN Raised("EOFError")
  ELSE IF Len(serialized) < 2 \/ serialized[1] # 80 THEN Raised(h.unpickling_error)
  ELSE Value(CASE serialized[2] = 1 -> [type |-> "DetectionModel", model |-> "none", fits |-> FALSE]
               [] serialized[2] = 2 -> [type |-> "dict", model |-> "DetectionModel", fits |-> FALSE]
               [] serialized[2] = 3 -> [type |-> "dict", model |-> "dict", fits |-> TRUE]
               [] serialized[2] = 4 -> [type |-> "dict", model |-> "none", fits |-> TRUE]
               [] serialized[2] = 5 -> [type |-> "dict", model |-> "other", fits |-> FALSE]
               [] serialized[2] = 7 -> [type |-> "dict", model |-> "none", fits |-> FALSE]
               [] serialized[2] = 8 -> [type |-> "dict", model |-> "dict", fits |-> FALSE]
               [] OTHER -> [type |-> "other", model |-> "none", fits |-> FALSE])

\* a model object: the value it was taken from, whether it is a
\* DetectionModel('yolov8n.yaml') skeleton with a state dict loaded, and
\* whether model.eval() was applied
Model(from, skeleton, eval) == [from |-> from, skeleton |-> skeleton, eval |-> eval]

\* DetectionModel(cfg): a fresh skeleton built from the YOLO configuration;
\* FileNotFoundError when the host has no such configuration file
DetectionModel(cfg, h) ==
  IF h.yolo_config THEN Value(Model(cfg, TRUE, FALSE)) ELSE Raised("FileNotFoundError")

\* model.load_state_dict(state_dict) on the skeleton r holds, reached only
\* when the constructor returned one: RuntimeError unless the keys of the
\* dict are the parameters of the skeleton
load_state_dict(r, from, fits) ==
  IF r.raised # "none" THEN r
  ELSE IF fits THEN Value([r.value EXCEPT !.from = from]) ELSE Raised("RuntimeError")

\* model.eval() on what the dispatch produced
eval(r) == IF r.raised # "none" THEN r ELSE Value([r.value EXCEPT !.eval = TRUE])

\* load_model_from_bytes that returns a DetectionModel found in the file as
\* it is, without model.eval()
load_model_from_bytes_returns_early(serialized, h) ==
  LET loaded == torch_load(serialized, h)
  IN  IF loaded.raised # "none" THEN loaded
      ELSE IF loaded.value.type = "dict"
      THEN IF loaded.value.model # "none"
           THEN IF loaded.value.model = "DetectionModel"
                THEN Value(Model("loaded[model]", FALSE, FALSE))
                ELSE IF loaded.value.model = "dict"
                THEN eval(load_state_dict(DetectionModel("yolov8n.yaml", h),
                                          "loaded[model]", loaded.value.fits))
                ELSE Raised("TypeError")
           ELSE eval(load_state_dict(DetectionModel("yolov8n.yaml", h),
                                     "loaded", loaded.value.fits))
      ELSE IF loaded.value.type = "DetectionModel"
      THEN Value(Model("loaded", FALSE, FALSE))
      ELSE Raised("TypeError")

\* load_model_from_bytes(model_bytes): an exception of torch.load, of the
\* DetectionModel constructor or of load_state_dict leaves the function as
\* it is; the function itself raises TypeError
load_model_from_bytes(serialized, h) ==
  LET loaded == torch_load(serialized, h)
  IN  IF loaded.raised # "none" THEN loaded
      ELSE IF loaded.value.type = "dict"
      THEN IF loaded.value.model # "none"
           THEN IF loaded.value.model = "DetectionModel"
                THEN eval(Value(Model("loaded[model]", FALSE, FALSE)))
                ELSE IF loaded.value.model = "dict"
                THEN eval(load_state_dict(DetectionModel("yolov8n.yaml", h),
                                          "loaded[model]", loaded.value.fits))
                ELSE Raised("TypeError")
           ELSE eval(load_state_dict(DetectionModel("yolov8n.yaml", h),
                                     "loaded", loaded.value.fits))
      ELSE IF loaded.value.type = "DetectionModel"
      THEN eval(Value(Model("loaded", FALSE, FALSE)))
      ELSE Raised("TypeError")

\* encrypt_model.py: the file written for a model: nonce + aesgcm.encrypt(...)
encrypt_model(key, nonce, model_data) == nonce \o aesgcm_encrypt(key, nonce, model_data)

(* ------------------------------- main.py ------------------------------ *)

\* decrypt_aes_key reaches serialization.load_pem_private_key: both of its
\* files could be read
private_key_parsed(files, enc_key_path, private_key_path) ==
  files[enc_key_path].error = "none" /\ files[private_key_path].error = "none"

\* the files as an open() in iteration ix finds them: files at the start of
\* the process, and for a path that changed the last of its changes made
\* up to that iteration (a path changes at most once before an iteration)
files_at(files, changes, ix) ==
  [ p \in DOMAIN files |->
      LET made == { c \in changes : c.path = p /\ c.at <= ix }
      IN  IF made # {}
          THEN (CHOOSE c \in made : \A d \in made : d.at <= c.at).file
          ELSE files[p] ]

\* reading k of time.time() on host h.  A reading is a float that is a
\* multiple of the clock's resolution: it is counted in that unit, in which
\* the subtractions of run_once are exact.  After the last reading the host
\* lists the clock stands still
time_time(h, k) == IF k <= Len(h.time) THEN h.time[k] ELSE h.time[Len(h.time)]

\* metrics[key] = value for a key the dict does not hold yet
set_metric(m, key, value) == Append(m, <<key, value>>)

Digits == <<"0", "1", "2", "3", "4", "5", "6", "7", "8", "9">>

RECURSIVE str_int(_)
\* str(n) for an int n >= 0
str_int(n) == IF n < 10 THEN Digits[n + 1] ELSE str_int(n \div 10) \o Digits[(n % 10) + 1]

RECURSIVE Power(_, _)
\* b ** n
Power(b, n) == IF n = 0 THEN 1 ELSE b * Power(b, n - 1)

RECURSIVE zero_padded(_, _)
\* the decimal digits of n >= 0, with zeros in front up to width digits
zero_padded(n, width) ==
  IF width = 0 THEN ""
  ELSE zero_padded(n \div 10, width - 1) \o Digits[(n % 10) + 1]

\* Python floats are IEEE 754 doubles.  The quotients and products of
\* main() are computed as the doubles they are, on natural numbers of any
\* size: a sequence of limbs of 15 bits (below 32768), the least
\* significant first, the empty sequence for 0.
RECURSIVE big(_)
\* the int n >= 0 in limbs
big(n) == IF n = 0 THEN <<>> ELSE <<n % 32768>> \o big(n \div 32768)

RECURSIVE big_trim(_)
\* a without zero limbs at its significant end
big_trim(a) ==
  IF a # <<>> /\ a[Len(a)] = 0 THEN big_trim(SubSeq(a, 1, Len(a) - 1)) ELSE a

RECURSIVE big_mul(_, _, _)
\* a * k + carry for ints 0 < k < 32768 and 0 <= carry < 32768
big_mul(a, k, carry) ==
  IF a = <<>> THEN big(carry)
  ELSE <<(a[1] * k + carry) % 32768>>
         \o big_mul(Tail(a), k, (a[1] * k + carry) \div 32768)

RECURSIVE big_div_from(_, _, _, _, _)
big_div_from(a, d, ix, rest, out) ==
  IF ix = 0 THEN [q |-> big_trim(out), r |-> rest]
  ELSE big_div_from(a, d, ix - 1, (rest * 32768 + a[ix]) % d,
                    <<(rest * 32768 + a[ix]) \div d>> \o out)

\* divmod(a, d) for an int 0 < d < 32768: q in limbs, r an int
big_divmod(a, d) == big_div_from(a, d, Len(a), 0, <<>>)

RECURSIVE big_inc(_)
\* a + 1
big_inc(a) ==
  IF a = <<>> THEN <<1>>
  ELSE IF a[1] + 1 < 32768 THEN <<a[1] + 1>> \o Tail(a)
  ELSE <<0>> \o big_inc(Tail(a))

RECURSIVE small_bits(_)
small_bits(v) == IF v = 0 THEN 0 ELSE 1 + small_bits(v \div 2)

\* a.bit_length()
bit_length(a) == IF a = <<>> THEN 0 ELSE 15 * (Len(a) - 1) + small_bits(a[Len(a)])

\* a >> s, and whether a bit that is 1 was shifted out
shift_right(a, s) ==
  LET whole == Min(s \div 15, Len(a))
      dm == big_divmod(SubSeq(a, whole + 1, Len(a)), Power(2, s % 15))
  IN  [q |-> dm.q, sticky |-> dm.r # 0 \/ \E k \in 1..whole : a[k] # 0]

\* (a + f) / 2^s for s >= 1 and a fraction 0 <= f < 1 that is not 0 iff
\* sticky, rounded to the nearest integer, to the even one of two that are
\* equally near
round_half_even(a, s, sticky) ==
  LET sh == shift_right(a, s - 1)
      half == big_divmod(sh.q, 2)
  IN  IF half.r = 1 /\ (sh.sticky \/ sticky \/ big_divmod(half.q, 2).r = 1)
      THEN big_inc(half.q) ELSE half.q

\* the double nearest to (a + f) * 2^e, not 0: its significand m of at most
\* 53 bits and its exponent e, the value being m * 2^e
round_to_double(a, sticky, e) ==
  IF bit_length(a) <= 53 THEN [m |-> a, e |-> e]
  ELSE [m |-> round_half_even(a, bit_length(a) - 53, sticky),
        e |-> e + bit_length(a) - 53]

\* the float num / den for ints num and 0 < den < 32768: the quotient
\* of num * 2^75 (five limbs more) by den has more than 53 bits, and is
\* rounded to 53.  0.0 is written with the exponent -1
float_div(num, den) ==
  LET dm == big_divmod(<<0, 0, 0, 0, 0>> \o big(IF num < 0 THEN -num ELSE num), den)
  IN  IF num = 0 THEN [neg |-> FALSE, m |-> <<>>, e |-> -1]
      ELSE [neg |-> num < 0] @@ round_to_double(dm.q, dm.r # 0, -75)

\* the float x * k for a float x and an int 0 < k < 32768
float_mul(x, k) == [neg |-> x.neg] @@ round_to_double(big_mul(x.m, k, 0), FALSE, x.e)

RECURSIVE big_digits(_)
big_digits(a) ==
  IF a = <<>> THEN ""
  ELSE big_digits(big_divmod(a, 10).q) \o Digits[big_divmod(a, 10).r + 1]

\* f"{x:.{places}f}" for 1 <= places <= 4 and a float x with an exponent
\* below 0, as float_div and float_mul give for ints below 2^31: the value
\* of x rounded to the nearest multiple of 10^-places, to the even one of
\* two that are equally near; a negative x keeps its sign when it rounds
\* to 0
format_float(x, places) ==
  LET scaled == big_mul(x.m, Power(10, places), 0)
      rounded == round_half_even(scaled, -x.e, FALSE)
      dm == big_divmod(rounded, Power(10, places))
  IN  (IF x.neg THEN "-" ELSE "")
        \o (IF dm.q = <<>> THEN "0" ELSE big_digits(dm.q)) \o "."
        \o zero_padded(dm.r, places)

\* f"{num / den:.{places}f}" for ints num and 0 < den < 32768
format_fixed(num, den, places) == format_float(float_div(num, den), places)

\* main.py line 130: the first line of main()
start_line(total) == "Iniciando benchmark com " \o str_int(total) \o " execucoes..."

\* main.py lines 134-135: the progress text of iteration ix (from 0) of
\* total, with the end='\r' it is printed with
progress_line(ix, total) ==
  "Progresso: " \o format_float(float_mul(float_div(ix + 1, total), 100), 1) \o "% ("
    \o str_int(ix + 1) \o "/" \o str_int(total) \o ")\r"

\* metrics[key]
get_metric(m, key) == m[CHOOSE k \in DOMAIN m : m[k][1] = key][2]

RECURSIVE column_sum(_, _)
\* the sum of df[key] for the frame of the records rs
column_sum(rs, key) ==
  IF rs = <<>> THEN 0 ELSE get_metric(rs[1], key) + column_sum(Tail(rs), key)

\* main.py lines 149-158: the means of the four columns over the records
\* rs, as the five print calls write them
means_lines(rs, total) ==
  << "\nMedias apos " \o str_int(total) \o " execucoes:",
     "  Decryption: " \o format_fixed(column_sum(rs, "decryption_time"), Len(rs), 4) \o " s",
     "  Load:       " \o format_fixed(column_sum(rs, "load_time"), Len(rs), 4) \o " s",
     "  Inference:  " \o format_fixed(column_sum(rs, "inference_time"), Len(rs), 4) \o " s",
     "  Total:      " \o format_fixed(column_sum(rs, "total_time"), Len(rs), 4) \o " s\n" >>

\* pd.DataFrame(results).to_csv(..., index=False): the columns are the keys
\* of the dicts in their insertion order, a row for each dict
to_csv(rs) ==
  [ columns |-> IF rs = <<>> THEN <<>>
                ELSE Tuple([k \in DOMAIN rs[1] |-> rs[1][k][1]], Len(rs[1])),
    rows |-> Tuple([r \in DOMAIN rs |->
                      Tuple([k \in DOMAIN rs[r] |-> rs[r][k][2]], Len(rs[r]))], Len(rs)) ]

(* ------------------------------ state --------------------------------- *)

VARIABLES
  state,        \* the process-level state
  main_file,    \* __file__ of main.py
  host,         \* what the interpreter, the platform and the libraries report
  sys_modules,  \* sys.modules, in insertion order: [name, file]
  processes,    \* psutil.process_iter(...), in order
  fs,           \* the files the process reads
  registry,     \* hash_registry_obfuscated: Some(name -> hex digest), None without the module
  stdout,       \* the text of each print() so far (with its end when not a newline)
  exit_code,    \* None while the process runs, then its exit status
  calls,        \* the gate and unwrap functions called so far, in order
  debugger,     \* what detect_and_block_debugger did, None before it ran
  instrumentation, \* what detect_malicious_modules did, None before it ran
  pc,           \* the position inside main() and run_once()
  i,            \* the loop index of main()
  results,      \* the list main() appends the metrics of each run to
  aes_key,      \* the locals of run_once, None while unbound
  model_bytes,
  model,
  dummy_input,
  raised,       \* the exception that ended the process, None if none did
  runs,         \* the number of iterations main() makes
  ticks,        \* the number of time.time() calls made so far
  start_total,  \* the clock readings run_once keeps, None while unbound
  start_decrypt,
  start_load,
  start_infer,
  metrics,      \* the dict run_once fills: <<key, value>> in insertion order
  csv,          \* results/benchmark.csv, None until it is written
  private_key_loads \* the loop index at each load_pem_private_key call

vars ==
  << state, main_file, host, sys_modules, processes, fs, registry, stdout,
     exit_code, calls, debugger, instrumentation, pc, i, results, aes_key,
     model_bytes, model, dummy_input, raised, runs, ticks, start_total,
     start_decrypt, start_load, start_infer, metrics, csv, private_key_loads >>

environment == << main_file, host, sys_modules, processes, fs, registry >>
locals == << aes_key, model_bytes, model, dummy_input >>
timers == << ticks, start_total, start_decrypt, start_load, start_infer, metrics >>
session == << runs, csv, private_key_loads >>

\* IS_PRODUCTION tested on os.path.dirname(__file__) as it is written, not
\* on its absolute path
IS_PRODUCTION_of_dirname == str_in(<<"d","i","s","t","_","p","r","o","t","e","c","t","e","d">>, dirname(main_file))

\* IS_PRODUCTION = "dist_protected" in os.path.abspath(os.path.dirname(__file__))
IS_PRODUCTION == str_in(<<"d","i","s","t","_","p","r","o","t","e","c","t","e","d">>, abspath(dirname(main_file), host.cwd))

\* runs = 2000 of main(): a small number here
MaxRuns == 2

(* --------------------------- environments ----------------------------- *)

ProductionEntry == <<"/","o","p","t","/","d","i","s","t","_","p","r","o","t","e","c","t","e","d","/","m","a","i","n",".","p","y">>
DevelopmentEntry == <<"/","a","p","p","/","m","a","i","n",".","p","y">>

\* <<__file__ of main.py, working directory>>
EntryCases ==
  { <<ProductionEntry, <<"/","o","p","t","/","d","i","s","t","_","p","r","o","t","e","c","t","e","d">>>>,
    <<DevelopmentEntry, <<"/","a","p","p">>>>,
    <<<<"m","a","i","n",".","p","y">>, <<"/","o","p","t","/","d","i","s","t","_","p","r","o","t","e","c","t","e","d">>>>,
    <<<<"m","a","i","n",".","p","y">>, <<"/","a","p","p">>>>,
    <<<<"/","s","r","v","/","x","_","d","i","s","t","_","p","r","o","t","e","c","t","e","d","_","o","l","d","/","m","a","i","n",".","p","y">>, <<"/","s","r","v">>>>,
    <<<<"/","s","r","v","/","D","i","s","t","_","P","r","o","t","e","c","t","e","d","/","m","a","i","n",".","p","y">>, <<"/","s","r","v">>>>,
    <<<<"/","o","p","t","/","d","i","s","t","_","p","r","o","t","e","c","t","e","d","/",".",".","/","a","p","p","/","m","a","i","n",".","p","y">>, <<"/","o","p","t">>>> }

BaseHost(cwd) ==
  [ gettrace |-> FALSE,
    stack |-> << <<"/","o","p","t","/","d","i","s","t","_","p","r","o","t","e","c","t","e","d","/","s","c","r","i","p","t","s","/","c","o","d","e","_","p","r","o","t","e","c","t","i","o","n",".","p","y">>, <<"/","o","p","t","/","d","i","s","t","_","p","r","o","t","e","c","t","e","d","/","m","a","i","n",".","p","y">> >>,
    threads |-> << <<"M","a","i","n","T","h","r","e","a","d">> >>,
    os_name |-> "posix",
    IsDebuggerPresent |-> "zero",
    environ |-> [PYTHONBREAKPOINT |-> None, PYDEV_DEBUG |-> None],
    loop_time |-> TimingThreshold,
    time |-> <<100, 105, 109, 114, 115, 121, 127, 128, 133, 137, 142, 143, 149, 155, 156, 161,
               165, 170, 171, 177, 183, 184, 189, 193, 198, 199, 205, 211, 212, 217, 221, 226>>,
    changes |-> {},
    stdlib |-> <<"/","u","s","r","/","l","i","b","/","p","y","t","h","o","n","3">>,
    base_prefix |-> <<"/","u","s","r">>,
    unpickling_error |-> "UnpicklingError",
    yolo_config |-> TRUE,
    cwd |-> cwd ]

DebugHosts ==
  { [ BaseHost(<<"/","o","p","t","/","d","i","s","t","_","p","r","o","t","e","c","t","e","d">>) EXCEPT
        !.gettrace = g, !.stack = st, !.threads = th, !.os_name = pf[1],
        !.IsDebuggerPresent = pf[2], !.environ = [PYTHONBREAKPOINT |-> bp, PYDEV_DEBUG |-> pd],
        !.loop_time = lt ] :
      g \in BOOLEAN,
      st \in { << <<"/","o","p","t","/","d","i","s","t","_","p","r","o","t","e","c","t","e","d","/","m","a","i","n",".","p","y">> >>,
               << <<"/","u","s","r","/","l","i","b","/","p","y","t","h","o","n","3","/","p","d","b",".","p","y">>, <<"/","o","p","t","/","d","i","s","t","_","p","r","o","t","e","c","t","e","d","/","m","a","i","n",".","p","y">> >>,
               << <<"/","o","p","t","/","i","d","e","/","P","y","D","e","v","d","_","R","u","n","n","e","r",".","p","y">>, <<"/","o","p","t","/","d","i","s","t","_","p","r","o","t","e","c","t","e","d","/","m","a","i","n",".","p","y">> >> },
      th \in { << <<"M","a","i","n","T","h","r","e","a","d">> >>,
               << <<"M","a","i","n","T","h","r","e","a","d">>, <<"p","y","d","e","v","d",".","W","r","i","t","e","r">> >>,
               << <<"M","a","i","n","T","h","r","e","a","d">>, <<"m","y","_","p","y","d","e","v","d">> >> },
      pf \in { <<"posix", "nonzero">>, <<"nt", "zero">>, <<"nt", "nonzero">>,
                <<"nt", "raises">> },
      bp \in {None, Some(<<>>), Some(<<"0">>)},
      pd \in {None, Some(<<>>), Some(<<"T","r","u","e">>)},
      lt \in {TimingThreshold, TimingThreshold + 1} }

Module(name, file) == [name |-> name, file |-> file]

BaseModules(entry) ==
  << Module(<<"s","y","s">>, None),
     Module(<<"_","_","m","a","i","n","_","_">>, Some(entry)),
     Module(<<"o","s">>, Some(<<"/","u","s","r","/","l","i","b","/","p","y","t","h","o","n","3","/","o","s",".","p","y">>)),
     Module(<<"s","c","r","i","p","t","s",".","c","o","d","e","_","p","r","o","t","e","c","t","i","o","n">>, Some(<<"/","o","p","t","/","d","i","s","t","_","p","r","o","t","e","c","t","e","d","/","s","c","r","i","p","t","s","/","c","o","d","e","_","p","r","o","t","e","c","t","i","o","n",".","p","y">>)) >>

DebugpyModule == Module(<<"d","e","b","u","g","p","y">>, Some(<<"/","u","s","r","/","l","i","b","/","s","i","t","e","-","p","a","c","k","a","g","e","s","/","d","e","b","u","g","p","y","/","_","_","i","n","i","t","_","_",".","p","y">>))

ExtraModules ==
  { Module(<<"j","s","o","n">>, Some(<<"/","u","s","r","/","l","i","b","/","p","y","t","h","o","n","3","/","j","s","o","n","/","_","_","i","n","i","t","_","_",".","p","y">>)),
    Module(<<"n","u","m","p","y">>, Some(<<"/","u","s","r","/","l","i","b","/","s","i","t","e","-","p","a","c","k","a","g","e","s","/","n","u","m","p","y","/","_","_","i","n","i","t","_","_",".","p","y">>)),
    Module(<<"F","r","i","d","a">>, None),
    Module(<<"_","P","y","M","e","m","_","x">>, Some(<<"/","u","s","r","/","l","i","b","/","s","i","t","e","-","p","a","c","k","a","g","e","s","/","_","P","y","M","e","m","_","x",".","p","y">>)),
    Module(<<"e","v","i","l">>, Some(<<"/","t","m","p","/","e","v","i","l",".","p","y">>)),
    Module(<<"u","p">>, Some(<<"/","u","s","r","/","l","i","b","/","p","y","t","h","o","n","3","/",".",".","/",".",".","/",".",".","/","t","m","p","/","u","p",".","p","y">>)),
    Module(<<"r","e","l">>, Some(<<".",".","/",".",".","/","t","m","p","/","r","e","l",".","p","y">>)),
    Module(<<"r","e","q">>, Some(<<"/","u","s","r","/","l","i","b","/","p","y","t","h","o","n","3","-","e","v","i","l","/","r","e","q",".","p","y">>)),
    Module(<<"M","i","x","e","d">>, Some(<<"/","U","S","R","/","L","I","B","/","P","y","t","h","o","n","3","/","M","i","x","e","d",".","p","y">>)),
    Module(<<"p","y","a","r","m","o","r","_","r","u","n","t","i","m","e","_","0","0","0","0","0","0">>, Some(<<"/","t","m","p","/","p","y","a","r","m","o","r","_","r","u","n","t","i","m","e","_","0","0","0","0","0","0","/","_","_","i","n","i","t","_","_",".","p","y">>)),
    Module(<<"P","y","A","r","m","o","r","_","R","u","n","t","i","m","e">>, Some(<<"/","t","m","p","/","P","y","A","r","m","o","r","_","R","u","n","t","i","m","e",".","p","y">>)),
    Module(<<"p","l","u","g","i","n">>, Some(<<"/","t","m","p","/","x","_","d","i","s","t","_","p","r","o","t","e","c","t","e","d","_","y","/","p","l","u","g","i","n",".","p","y">>)),
    Module(<<"h","e","l","p","e","r">>, Some(<<"/","t","m","p","/","D","i","s","t","_","P","r","o","t","e","c","t","e","d","/","h","e","l","p","e","r",".","p","y">>)),
    Module(<<"o","s","2">>, Some(<<"/","/","u","s","r","/","l","i","b","/","p","y","t","h","o","n","3","/","o","s","2",".","p","y">>)),
    Module(<<"F","R","I","D","Á">>, None),
    Module(<<"É","t","é">>, Some(<<"/","U","S","R","/","L","I","B","/","P","Y","T","H","O","N","3","/","É","t","é",".","p","y">>)) }

\* the sequences of at most n distinct elements of S
RECURSIVE SeqsUpTo(_, _)
SeqsUpTo(S, n) ==
  IF n = 0 THEN { <<>> }
  ELSE LET shorter == SeqsUpTo(S, n - 1)
       IN  shorter \cup { Append(s, x) : s \in { t \in shorter : Len(t) = n - 1 },
                                         x \in S }

Distinct(s) == \A a, b \in DOMAIN s : a # b => s[a] # s[b]

MaxExtraModules == 2
MaxProcesses == 2

Proc(error, name, cmdline) == [error |-> error, name |-> name, cmdline |-> cmdline]

BaseProcesses == << Proc("none", Some(<<"s","y","s","t","e","m","d">>), Some(<< <<"/","s","b","i","n","/","i","n","i","t">> >>)) >>

ExtraProcesses ==
  { Proc("none", Some(<<"b","a","s","h">>), Some(<< <<"-","b","a","s","h">> >>)),
    Proc("none", Some(<<"G","D","B">>), Some(<< <<"G","D","B">>, <<"-","p">>, <<"4","2">> >>)),
    Proc("none", Some(<<"p","y","t","h","o","n","3">>), Some(<< <<"p","y","t","h","o","n","3">>, <<"/","o","p","t","/","F","r","i","d","a","-","T","r","a","c","e">>, <<"-","p">> >>)),
    Proc("none", None, None),
    Proc("none", Some(<<"i","d","a">>), Some(<< <<"i","d","a">>, <<"6","4">> >>)),
    Proc("AccessDenied", Some(<<"x","6","4","d","b","g">>), None),
    Proc("NoSuchProcess", Some(<<"w","i","r","e","s","h","a","r","k">>), Some(<< <<"w","i","r","e","s","h","a","r","k">> >>)) }

\* keys, nonces and models (the serialized container of torch_load, the
\* five bytes "hello", no bytes, and a model longer than one AES block)
Key1 == <<1, 2, 3, 4, 5, 6, 7, 8, 9, 10, 11, 12, 13, 14, 15, 16>>
Key0 == ZeroBytes(16)
Nonce1 == <<0, 0, 0, 0, 0, 0, 0, 0, 0, 0, 0, 1>>
Nonce0 == ZeroBytes(12)
Hello == <<104, 101, 108, 108, 111>>
LongModel == <<80, 1>> \o Tuple([k \in 1..15 |-> k - 1], 15)
Models ==
  { <<80, 1>>, <<80, 2>>, <<80, 3>>, <<80, 4>>, <<80, 5>>, <<80, 6>>, Hello, <<>>, LongModel }

\* <<aes_key, nonce, model_data>> of the encrypt_model runs the model knows
Encryptions ==
  { <<Key1, Nonce1, m>> : m \in Models }
    \cup { <<Key1, Nonce0, Hello>>, <<Key0, Nonce1, Hello>>, <<Key0, Nonce0, Hello>> }

\* data with bit b flipped, bit 1 the most significant bit of data[1]
FlipBit(data, b) ==
  LET at == ((b - 1) \div 8) + 1
      bit == ((b - 1) % 8) + 1
  IN  [data EXCEPT ![at] = IF BitOf(data[at], bit) = 1
                           THEN data[at] - 2 ^ (8 - bit)
                           ELSE data[at] + 2 ^ (8 - bit)]

\* the bits of an encrypted model after the nonce: ciphertext and tag
TamperBits(blob) == (8 * NonceBytes + 1)..(8 * Len(blob))

BaseBlob == encrypt_model(Key1, Nonce1, <<80, 1>>)

\* every encryption with the file encrypt_model writes for it
EncryptionFiles ==
  { [aes_key |-> e[1], nonce |-> e[2], model_data |-> e[3],
     file |-> encrypt_model(e[1], e[2], e[3])] : e \in Encryptions }

\* <<aes_key, file>>: the key and the file encrypt_model writes, for every
\* encryption
EncryptedModels == { <<e.aes_key, e.file>> : e \in EncryptionFiles }

\* the encrypted models a production run may find, whose digests
\* Sha256Table holds: every encryption, and BaseBlob with its first
\* ciphertext bit or its last tag bit flipped
ProductionBlobs ==
  { e[2] : e \in EncryptedModels }
    \cup { FlipBit(BaseBlob, 8 * NonceBytes + 1), FlipBit(BaseBlob, 8 * Len(BaseBlob)) }

Sources == { <<>>, <<97>>, <<98>>, <<97, 97>>, <<97, 98>>, <<98, 97>>, <<98, 98>> }
BaseSource == <<97, 98>>

BaseFs ==
  [ p \in { "main.py", "scripts/decrypt_model.py", "model/model.pth.enc",
            "key/aes_key.enc", "key/private.pem" } |->
      CASE p = "model/model.pth.enc" -> File(BaseBlob)
        [] p = "key/aes_key.enc" -> File(Wrapped("A", Key1))
        [] p = "key/private.pem" -> File(PrivatePem("A"))
        [] OTHER -> File(BaseSource) ]

\* the module hash_registry_obfuscated of a deployment on whose files f
\* embed_hash.py was run: None when the script raised and wrote no module
RegistryOf(f) ==
  IF generate_hash_registry_obfuscated(f).raised = "none"
  THEN Some(generate_hash_registry_obfuscated(f).value)
  ELSE None

\* the files of a deployment when embed_hash.py was run too early: the
\* encrypted model was not there yet, or main.py could not be opened
IncompleteFs ==
  { [BaseFs EXCEPT !["model/model.pth.enc"] = Unreadable("FileNotFoundError")],
    [BaseFs EXCEPT !["main.py"] = Unreadable("PermissionError")] }

OSErrors == { "FileNotFoundError", "PermissionError" }

\* what time.time() returns at the eight readings of the first run_once:
\* the wall clock may stand still, go on or be set back between two readings
Clocks ==
  { Tuple(f, 8) : f \in [1..8 -> {0, 1}] }
    \cup { <<5, 5, 9, 9, 9, 9, 9, 9>>, <<7, 6, 5, 4, 3, 2, 1, 0>>, <<0, 1, 3, 4, 6, 7, 9, 12>> }

(* ------------------------------- Init --------------------------------- *)

\* the entry module and its directory vary, and whether the registry was
\* generated from the complete deployment
EntryInit ==
  \E e \in EntryCases :
    /\ main_file = e[1]
    /\ host = BaseHost(e[2])
    /\ sys_modules = BaseModules(e[1])
    /\ processes = BaseProcesses
    /\ fs = BaseFs
    /\ registry \in { RegistryOf(BaseFs) } \cup { RegistryOf(f) : f \in IncompleteFs }

Production == main_file = ProductionEntry

\* one of the three checked files varies, and what it was when the registry
\* was generated: other contents, missing, or not to be opened
IntegrityInit ==
  /\ Production
  /\ host = BaseHost(<<"/","o","p","t","/","d","i","s","t","_","p","r","o","t","e","c","t","e","d">>)
  /\ sys_modules = BaseModules(ProductionEntry)
  /\ processes = BaseProcesses
  /\ \E k \in DOMAIN integrity_checks :
       LET contents == IF integrity_checks[k].path = "model/model.pth.enc"
                       THEN ProductionBlobs ELSE Sources
           files == { File(c) : c \in contents } \cup { Unreadable(e) : e \in OSErrors }
       IN  \E f \in files, original \in files :
             /\ fs = [BaseFs EXCEPT ![integrity_checks[k].path] = f]
             /\ registry = RegistryOf([BaseFs EXCEPT ![integrity_checks[k].path] = original])

\* what the interpreter and the platform report to detect_and_block_debugger varies
DebuggerInit ==
  /\ Production
  /\ host \in DebugHosts
  /\ sys_modules \in { BaseModules(ProductionEntry),
                       Append(BaseModules(ProductionEntry), DebugpyModule) }
  /\ processes = BaseProcesses
  /\ fs = BaseFs
  /\ registry = RegistryOf(BaseFs)

\* the loaded modules vary
ModulesInit ==
  /\ Production
  /\ host = BaseHost(<<"/","o","p","t","/","d","i","s","t","_","p","r","o","t","e","c","t","e","d">>)
  /\ \E extra \in SeqsUpTo(ExtraModules, MaxExtraModules) :
       /\ Distinct(extra)
       /\ sys_modules = BaseModules(ProductionEntry) \o extra
  /\ processes = BaseProcesses
  /\ fs = BaseFs
  /\ registry = RegistryOf(BaseFs)

\* the process table varies
ProcessesInit ==
  /\ Production
  /\ host = BaseHost(<<"/","o","p","t","/","d","i","s","t","_","p","r","o","t","e","c","t","e","d">>)
  /\ sys_modules = BaseModules(ProductionEntry)
  /\ \E extra \in SeqsUpTo(ExtraProcesses, MaxProcesses) : processes = BaseProcesses \o extra
  /\ fs = BaseFs
  /\ registry = RegistryOf(BaseFs)

\* the encrypted model after any number of its last bytes were cut off
Truncations(blob) == { SubSeq(blob, 1, n) : n \in {0, 7, 8, NonceBytes, Len(blob) - 1} }

\* the key files and the encrypted model vary, in a development checkout
UnwrapInit ==
  /\ main_file = DevelopmentEntry
  /\ host = BaseHost(<<"/","a","p","p">>)
  /\ sys_modules = BaseModules(DevelopmentEntry)
  /\ processes = BaseProcesses
  /\ registry = RegistryOf(BaseFs)
  /\ \/ \E e \in EncryptedModels :
          \E m \in { File(FlipBit(e[2], b)) : b \in TamperBits(e[2]) }
                    \cup { File(e[2]) } \cup { File(t) : t \in Truncations(e[2]) }
                    \cup { Unreadable(x) : x \in OSErrors } :
            fs = [BaseFs EXCEPT !["model/model.pth.enc"] = m,
                                !["key/aes_key.enc"] = File(Wrapped("A", e[1]))]
     \/ \E k \in { File(Wrapped("A", Key1)), File(Wrapped("A", Key0)),
                    File(BrokenWrapped("A", Key1)), File(Wrapped("B", Key1)),
                    Unreadable("FileNotFoundError") },
            p \in { File(PrivatePem("A")), File(BrokenPem), Unreadable("PermissionError") } :
          fs = [BaseFs EXCEPT !["key/aes_key.enc"] = k, !["key/private.pem"] = p]

\* serialized values the Models do not hold: a dict without a "model" entry
\* that is no state dict of the skeleton, a dict whose "model" entry is such
\* a dict, a list, and bytes that are no container
OtherModels == { <<80, 7>>, <<80, 8>>, <<80, 9>>, <<81, 1>>, <<80>> }

\* the serialized model varies, in a development checkout, and with it the
\* exception torch.load raises for bytes that are no container and whether
\* the YOLO configuration is installed
LoadInit ==
  /\ main_file = DevelopmentEntry
  /\ \E error \in { "UnpicklingError", "EOFError", "RuntimeError" }, config \in BOOLEAN :
       host = [BaseHost(<<"/","a","p","p">>) EXCEPT
                 !.unpickling_error = error, !.yolo_config = config]
  /\ sys_modules = BaseModules(DevelopmentEntry)
  /\ processes = BaseProcesses
  /\ registry = RegistryOf(BaseFs)
  /\ \E m \in OtherModels \cup { <<80, 2>>, <<80, 3>>, <<80, 4>>, <<>> } :
       fs = [BaseFs EXCEPT !["model/model.pth.enc"] = File(encrypt_model(Key1, Nonce1, m))]

\* what happens to a file while the benchmark runs: the wrapped key or the
\* encrypted model is removed, the private key is overwritten, the encrypted
\* model is replaced by one of a list
FileChanges ==
  { <<"key/aes_key.enc", Unreadable("FileNotFoundError")>>,
    <<"key/private.pem", File(BrokenPem)>>,
    <<"model/model.pth.enc", Unreadable("FileNotFoundError")>>,
    <<"model/model.pth.enc", File(encrypt_model(Key1, Nonce1, <<80, 9>>))>> }

\* a file changes after the process started, before one of the iterations,
\* in a development checkout; it may change once more before a later
\* iteration
ChangesInit ==
  /\ main_file = DevelopmentEntry
  /\ \E c \in FileChanges, n \in 0..(MaxRuns - 1) :
       \E later \in {{}} \cup { { [at |-> m, path |-> c[1], file |-> d[2]] } :
                                 d \in { e \in FileChanges : e[1] = c[1] /\ e # c },
                                 m \in (n + 1)..(MaxRuns - 1) } :
         host = [BaseHost(<<"/","a","p","p">>) EXCEPT
                   !.changes = { [at |-> n, path |-> c[1], file |-> c[2]] } \cup later]
  /\ sys_modules = BaseModules(DevelopmentEntry)
  /\ processes = BaseProcesses
  /\ fs = BaseFs
  /\ registry = RegistryOf(BaseFs)

\* the clock varies, in a development checkout
ClockInit ==
  /\ main_file = DevelopmentEntry
  /\ \E c \in Clocks : host = [BaseHost(<<"/","a","p","p">>) EXCEPT !.time = c]
  /\ sys_modules = BaseModules(DevelopmentEntry)
  /\ processes = BaseProcesses
  /\ fs = BaseFs
  /\ registry = RegistryOf(BaseFs)

\* the process before the first statement of main.py
Start ==
  /\ state = "Init"
  /\ stdout = <<>>
  /\ exit_code = None
  /\ calls = <<>>
  /\ debugger = None
  /\ instrumentation = None
  /\ pc = "import"
  /\ i = 0
  /\ results = <<>>
  /\ aes_key = None
  /\ model_bytes = None
  /\ model = None
  /\ dummy_input = None
  /\ raised = None
  /\ ticks = 0
  /\ start_total = None
  /\ start_decrypt = None
  /\ start_load = None
  /\ start_infer = None
  /\ metrics = None
  /\ csv = None
  /\ private_key_loads = <<>>

Init ==
  /\ Start
  /\ runs = MaxRuns
  /\ \/ EntryInit
     \/ IntegrityInit
     \/ DebuggerInit
     \/ ModulesInit
     \/ ProcessesInit
     \/ UnwrapInit
     \/ ClockInit
     \/ LoadInit
     \/ ChangesInit

(* ------------------------------ actions ------------------------------- *)

Call(fn, passed) == [fn |-> fn, passed |-> passed]

\* sys.exit(1) of a gate function: its line is printed and the process ends
Abort(r) ==
  /\ state' = "Aborted"
  /\ stdout' = stdout \o r.out
  /\ exit_code' = Some(1)
  /\ pc' = "exited"

\* an exception of run_once that main() catches: the loop goes on with the
\* next iteration
Uncaught_caught_by_main(e) ==
  /\ state' = state
  /\ raised' = raised
  /\ exit_code' = exit_code
  /\ pc' = "loop"

\* an exception nothing catches: the interpreter prints the traceback and
\* the process ends with status 1
Uncaught(e) ==
  /\ state' = "Aborted"
  /\ raised' = Some(e)
  /\ exit_code' = Some(1)
  /\ pc' = "exited"

\* main.py line 45: the else branch of "if IS_PRODUCTION", then the rest of
\* the module body up to the __main__ guard
DevelopmentMode ==
  /\ state = "Init"
  /\ pc = "import"
  /\ ~IS_PRODUCTION
  /\ stdout' = Append(stdout, "Modo desenvolvimento - skipando checagem de integridade e protecao.")
  /\ state' = "Ready"
  /\ pc' = "main"
  /\ UNCHANGED << environment, exit_code, calls, debugger, instrumentation, i, results,
                  locals, raised, timers, session >>

\* the number of check_integrity calls made so far
IntegrityCalls == Cardinality({ c \in DOMAIN calls : calls[c].fn = "check_integrity" })

\* main.py lines 32-36 when the import of the registry names raises: no
\* gate function is called and nothing catches the error
ImportRegistry ==
  /\ state = "Init"
  /\ pc = "import"
  /\ IS_PRODUCTION
  /\ import_registry(registry).raised # "none"
  /\ Uncaught(import_registry(registry).raised)
  /\ UNCHANGED << environment, stdout, calls, debugger, instrumentation, i, results, locals,
                  timers, session >>

\* main.py lines 32-40: after the import of the registry names, the next of
\* the three check_integrity calls
CheckIntegrity ==
  /\ state = "Init"
  /\ pc = "import"
  /\ IS_PRODUCTION
  /\ import_registry(registry).raised = "none"
  /\ IntegrityCalls < Len(integrity_checks)
  /\ \E r \in { LET check == integrity_checks[IntegrityCalls + 1]
                 IN  check_integrity(fs, check.path, import_registry(registry).value[check.name]) } :
         /\ calls' = Append(calls, Call("check_integrity", r.exit = 0))
         /\ IF r.exit # 0
            THEN Abort(r)
            ELSE /\ state' = IF IntegrityCalls + 1 = Len(integrity_checks)
                             THEN "IntegrityChecked" ELSE state
                 /\ UNCHANGED << stdout, exit_code, pc >>
  /\ UNCHANGED << environment, debugger, instrumentation, i, results, locals, raised, timers, session >>

\* main.py line 42
DetectDebugger ==
  /\ state = "IntegrityChecked"
  /\ \E r \in { detect_and_block_debugger(host, sys_modules) } :
         /\ debugger' = Some(r)
         /\ calls' = Append(calls, Call("detect_and_block_debugger", r.exit = 0))
         /\ IF r.exit # 0
            THEN Abort(r)
            ELSE /\ state' = "DebuggerChecked"
                 /\ UNCHANGED << stdout, exit_code, pc >>
  /\ UNCHANGED << environment, instrumentation, i, results, locals, raised, timers, session >>

\* main.py line 43 with a detect_malicious_modules that prints its line and
\* returns instead of calling sys.exit(1)
DetectInstrumentation_no_exit ==
  /\ state = "DebuggerChecked"
  /\ \E r \in { detect_malicious_modules(sys_modules, processes, host) } :
         /\ instrumentation' = Some(r)
         /\ calls' = Append(calls, Call("detect_malicious_modules", r.exit = 0))
         /\ stdout' = stdout \o r.out
         /\ state' = "InstrumentationChecked"
         /\ UNCHANGED << exit_code, pc >>
  /\ UNCHANGED << environment, debugger, i, results, locals, raised, timers, session >>

\* main.py line 43
DetectInstrumentation ==
  /\ state = "DebuggerChecked"
  /\ \E r \in { detect_malicious_modules(sys_modules, processes, host) } :
         /\ instrumentation' = Some(r)
         /\ calls' = Append(calls, Call("detect_malicious_modules", r.exit = 0))
         /\ IF r.exit # 0
            THEN Abort(r)
            ELSE /\ state' = "InstrumentationChecked"
                 /\ UNCHANGED << stdout, exit_code, pc >>
  /\ UNCHANGED << environment, debugger, i, results, locals, raised, timers, session >>

\* a gate without line 43: the module body goes on after the debugger check
GatePassed_skips_instrumentation ==
  /\ state = "DebuggerChecked"
  /\ state' = "Ready"
  /\ pc' = "main"
  /\ UNCHANGED << environment, stdout, exit_code, calls, debugger, instrumentation, i,
                  results, locals, raised, timers, session >>

\* the gate is through: the module body goes on to the __main__ guard
GatePassed ==
  /\ state = "InstrumentationChecked"
  /\ state' = "Ready"
  /\ pc' = "main"
  /\ UNCHANGED << environment, stdout, exit_code, calls, debugger, instrumentation, i,
                  results, locals, raised, timers, session >>

\* main(): runs = 2000, results = [], the first print
MainStart ==
  /\ state = "Ready"
  /\ pc = "main"
  /\ state' = "Benchmarking"
  /\ pc' = "loop"
  /\ i' = 0
  /\ results' = <<>>
  /\ stdout' = Append(stdout, start_line(runs))
  /\ UNCHANGED << environment, exit_code, calls, debugger, instrumentation, locals, raised, timers, session >>

\* for i in range(runs): the progress line, then run_once() is entered:
\* metrics = {}, start_total = time.time(), start_decrypt = time.time()
BeginRun ==
  /\ state = "Benchmarking"
  /\ pc = "loop"
  /\ i < runs
  /\ stdout' = Append(stdout, progress_line(i, runs))
  /\ metrics' = Some(<<>>)
  /\ start_total' = Some(time_time(host, ticks + 1))
  /\ start_decrypt' = Some(time_time(host, ticks + 2))
  /\ ticks' = ticks + 2
  /\ pc' = "decrypt_aes_key"
  /\ UNCHANGED << environment, state, exit_code, calls, debugger, instrumentation,
                  i, results, locals, raised, start_load, start_infer, session >>

\* UnwrapKey with a private key that is parsed by the first call only and
\* kept for the later ones
UnwrapKey_loads_private_key_once ==
  /\ state = "Benchmarking"
  /\ pc = "decrypt_aes_key"
  /\ \E r \in { decrypt_aes_key(files_at(fs, host.changes, i),
                                  "key/aes_key.enc", "key/private.pem") } :
         /\ calls' = Append(calls, Call("decrypt_aes_key", r.raised = "none"))
         /\ IF r.raised # "none"
            THEN Uncaught(r.raised) /\ UNCHANGED aes_key
            ELSE /\ aes_key' = Some(r.value)
                 /\ pc' = "decrypt_model"
                 /\ UNCHANGED << state, exit_code, raised >>
  /\ private_key_loads' =
       IF private_key_loads = <<>> /\ private_key_parsed(files_at(fs, host.changes, i),
                             "key/aes_key.enc", "key/private.pem")
       THEN Append(private_key_loads, i) ELSE private_key_loads
  /\ UNCHANGED << environment, stdout, debugger, instrumentation, i, results,
                  model_bytes, model, dummy_input, timers, runs, csv >>

\* run_once(): aes_key = decrypt_aes_key(...)
UnwrapKey ==
  /\ state = "Benchmarking"
  /\ pc = "decrypt_aes_key"
  /\ \E r \in { decrypt_aes_key(files_at(fs, host.changes, i),
                                  "key/aes_key.enc", "key/private.pem") } :
         /\ calls' = Append(calls, Call("decrypt_aes_key", r.raised = "none"))
         /\ IF r.raised # "none"
            THEN Uncaught(r.raised) /\ UNCHANGED aes_key
            ELSE /\ aes_key' = Some(r.value)
                 /\ pc' = "decrypt_model"
                 /\ UNCHANGED << state, exit_code, raised >>
  /\ private_key_loads' =
       IF private_key_parsed(files_at(fs, host.changes, i),
                             "key/aes_key.enc", "key/private.pem")
       THEN Append(private_key_loads, i) ELSE private_key_loads
  /\ UNCHANGED << environment, stdout, debugger, instrumentation, i, results,
                  model_bytes, model, dummy_input, timers, runs, csv >>

\* DecryptModel with del aes_key right after decrypt_model returned
DecryptModel_drops_key ==
  /\ state = "Benchmarking"
  /\ pc = "decrypt_model"
  /\ \E r \in { decrypt_model(files_at(fs, host.changes, i),
                                "model/model.pth.enc", aes_key[1]) } :
         /\ calls' = Append(calls, Call("decrypt_model", r.raised = "none"))
         /\ IF r.raised # "none"
            THEN Uncaught(r.raised) /\ UNCHANGED << model_bytes, metrics, ticks, aes_key >>
            ELSE /\ model_bytes' = Some(r.value)
                 /\ aes_key' = None
                 /\ metrics' = Some(set_metric(metrics[1], "decryption_time",
                                               time_time(host, ticks + 1) - start_decrypt[1]))
                 /\ ticks' = ticks + 1
                 /\ pc' = "load_model_from_bytes"
                 /\ UNCHANGED << state, exit_code, raised >>
  /\ UNCHANGED << environment, stdout, debugger, instrumentation, i, results,
                  model, dummy_input, start_total, start_decrypt, start_load,
                  start_infer, session >>

\* run_once(): model_bytes = decrypt_model(..., aes_key), then
\* metrics["decryption_time"] = time.time() - start_decrypt
DecryptModel ==
  /\ state = "Benchmarking"
  /\ pc = "decrypt_model"
  /\ \E r \in { decrypt_model(files_at(fs, host.changes, i),
                                "model/model.pth.enc", aes_key[1]) } :
         /\ calls' = Append(calls, Call("decrypt_model", r.raised = "none"))
         /\ IF r.raised # "none"
            THEN Uncaught(r.raised) /\ UNCHANGED << model_bytes, metrics, ticks >>
            ELSE /\ model_bytes' = Some(r.value)
                 /\ metrics' = Some(set_metric(metrics[1], "decryption_time",
                                               time_time(host, ticks + 1) - start_decrypt[1]))
                 /\ ticks' = ticks + 1
                 /\ pc' = "load_model_from_bytes"
                 /\ UNCHANGED << state, exit_code, raised >>
  /\ UNCHANGED << environment, stdout, debugger, instrumentation, i, results,
                  aes_key, model, dummy_input, start_total, start_decrypt, start_load,
                  start_infer, session >>

\* run_once(): start_load = time.time(), model = load_model_from_bytes(model_bytes),
\* model.float(), metrics["load_time"] = time.time() - start_load
LoadModel ==
  /\ state = "Benchmarking"
  /\ pc = "load_model_from_bytes"
  /\ start_load' = Some(time_time(host, ticks + 1))
  /\ \E r \in { load_model_from_bytes(model_bytes[1], host) } :
         /\ calls' = Append(calls, Call("load_model_from_bytes", r.raised = "none"))
         /\ IF r.raised # "none"
            THEN Uncaught(r.raised) /\ ticks' = ticks + 1 /\ UNCHANGED << model, metrics >>
            ELSE /\ model' = Some(r.value)
                 /\ metrics' = Some(set_metric(metrics[1], "load_time",
                                               time_time(host, ticks + 2) - start_load'[1]))
                 /\ ticks' = ticks + 2
                 /\ pc' = "inference"
                 /\ UNCHANGED << state, exit_code, raised >>
  /\ UNCHANGED << environment, stdout, debugger, instrumentation, i, results,
                  aes_key, model_bytes, dummy_input, start_total, start_decrypt,
                  start_infer, session >>

\* Inference with total_time taken from start_infer on
Inference_total_from_start_infer ==
  /\ state = "Benchmarking"
  /\ pc = "inference"
  /\ dummy_input' = Some("randn(1, 3, 640, 640)")
  /\ start_infer' = Some(time_time(host, ticks + 1))
  /\ calls' = Append(calls, Call("model", TRUE))
  /\ metrics' = Some(set_metric(
                       set_metric(metrics[1], "inference_time",
                                  time_time(host, ticks + 2) - start_infer'[1]),
                       "total_time", time_time(host, ticks + 3) - start_infer'[1]))
  /\ ticks' = ticks + 3
  /\ pc' = "cleanup"
  /\ UNCHANGED << environment, state, stdout, exit_code, debugger, instrumentation, i,
                  results, aes_key, model_bytes, model, raised, start_total,
                  start_decrypt, start_load, session >>

\* run_once(): dummy_input = torch.randn(1, 3, 640, 640), start_infer =
\* time.time(), model(dummy_input), metrics["inference_time"] = time.time() -
\* start_infer, metrics["total_time"] = time.time() - start_total
Inference ==
  /\ state = "Benchmarking"
  /\ pc = "inference"
  /\ dummy_input' = Some("randn(1, 3, 640, 640)")
  /\ start_infer' = Some(time_time(host, ticks + 1))
  /\ calls' = Append(calls, Call("model", TRUE))
  /\ metrics' = Some(set_metric(
                       set_metric(metrics[1], "inference_time",
                                  time_time(host, ticks + 2) - start_infer'[1]),
                       "total_time", time_time(host, ticks + 3) - start_total[1]))
  /\ ticks' = ticks + 3
  /\ pc' = "cleanup"
  /\ UNCHANGED << environment, state, stdout, exit_code, debugger, instrumentation, i,
                  results, aes_key, model_bytes, model, raised, start_total,
                  start_decrypt, start_load, session >>

\* EndRun of a run_once that keeps the decrypted bytes in a module-level
\* cache
EndRun_keeps_model_bytes ==
  /\ state = "Benchmarking"
  /\ pc = "cleanup"
  /\ aes_key' = None
  /\ UNCHANGED model_bytes
  /\ model' = None
  /\ dummy_input' = None
  /\ results' = Append(results, metrics[1])
  /\ metrics' = None
  /\ start_total' = None
  /\ start_decrypt' = None
  /\ start_load' = None
  /\ start_infer' = None
  /\ i' = i + 1
  /\ pc' = "loop"
  /\ UNCHANGED << environment, state, stdout, exit_code, calls, debugger, instrumentation,
                  raised, ticks, session >>

\* EndRun with results.insert(0, metrics) for results.append(metrics)
EndRun_inserts_first ==
  /\ state = "Benchmarking"
  /\ pc = "cleanup"
  /\ aes_key' = None
  /\ model_bytes' = None
  /\ model' = None
  /\ dummy_input' = None
  /\ results' = <<metrics[1]>> \o results
  /\ metrics' = None
  /\ start_total' = None
  /\ start_decrypt' = None
  /\ start_load' = None
  /\ start_infer' = None
  /\ i' = i + 1
  /\ pc' = "loop"
  /\ UNCHANGED << environment, state, stdout, exit_code, calls, debugger, instrumentation,
                  raised, ticks, session >>

\* run_once(): the four del statements and return metrics, which ends the
\* frame of run_once; main(): results.append(metrics)
EndRun ==
  /\ state = "Benchmarking"
  /\ pc = "cleanup"
  /\ aes_key' = None
  /\ model_bytes' = None
  /\ model' = None
  /\ dummy_input' = None
  /\ results' = Append(results, metrics[1])
  /\ metrics' = None
  /\ start_total' = None
  /\ start_decrypt' = None
  /\ start_load' = None
  /\ start_infer' = None
  /\ i' = i + 1
  /\ pc' = "loop"
  /\ UNCHANGED << environment, state, stdout, exit_code, calls, debugger, instrumentation,
                  raised, ticks, session >>

\* main() after the loop: print() ends the progress line,
\* pd.DataFrame(results) is written to results/benchmark.csv and the means
\* are printed; df["decryption_time"] raises KeyError for a frame without
\* columns
Export ==
  /\ state = "Benchmarking"
  /\ pc = "loop"
  /\ i = runs
  /\ csv' = Some(to_csv(results))
  /\ IF results = <<>>
     THEN /\ stdout' = stdout \o <<"", "Benchmark concluido e salvo em 'results/benchmark.csv'.">>
          /\ Uncaught("KeyError")
     ELSE /\ stdout' = stdout
                         \o <<"", "Benchmark concluido e salvo em 'results/benchmark.csv'.">>
                         \o means_lines(results, runs)
          /\ state' = "Done"
          /\ pc' = "exited"
          /\ exit_code' = Some(0)
          /\ UNCHANGED raised
  /\ UNCHANGED << environment, calls, debugger, instrumentation, i, results, locals,
                  timers, runs, private_key_loads >>

Next ==
  \/ DevelopmentMode
  \/ ImportRegistry
  \/ CheckIntegrity
  \/ DetectDebugger
  \/ DetectInstrumentation
  \/ GatePassed
  \/ MainStart
  \/ BeginRun
  \/ UnwrapKey
  \/ DecryptModel
  \/ LoadModel
  \/ Inference
  \/ EndRun
  \/ Export

Spec == Init /\ [][Next]_vars

\* main() with runs set to every number of iterations from 0 to MaxRuns
RunInit ==
  /\ Start
  /\ runs \in 0..MaxRuns
  /\ EntryInit

RunSpec == RunInit /\ [][Next]_vars

(* ------------------------------ properties ---------------------------- *)

GateFunctions == { "check_integrity", "detect_and_block_debugger", "detect_malicious_modules" }
UnwrapFunctions == { "decrypt_aes_key", "decrypt_model" }

\* before call k the three integrity checks, the debugger check and the
\* instrumentation check were called, in this order, and all passed
GateRanBefore(k) ==
  /\ k > Len(integrity_checks) + 2
  /\ \A c \in 1..Len(integrity_checks) : calls[c] = Call("check_integrity", TRUE)
  /\ calls[Len(integrity_checks) + 1] = Call("detect_and_block_debugger", TRUE)
  /\ calls[Len(integrity_checks) + 2] = Call("detect_malicious_modules", TRUE)

\* C1 as the specification states it: in every execution, decrypt_aes_key
\* and decrypt_model are called only after check_integrity,
\* detect_and_block_debugger and detect_malicious_modules ran and passed.
C1_GateBeforeUnwrap ==
  \A k \in DOMAIN calls : calls[k].fn \in UnwrapFunctions => GateRanBefore(k)

\* C1, amended: in every execution in production mode (the directory of
\* main.py has "dist_protected" in its absolute path), decrypt_aes_key and
\* decrypt_model are called only after check_integrity,
\* detect_and_block_debugger and detect_malicious_modules ran and passed.
C1_GateBeforeUnwrapInProduction ==
  IS_PRODUCTION =>
    \A k \in DOMAIN calls : calls[k].fn \in UnwrapFunctions => GateRanBefore(k)

\* a production run that decrypted the model
C1_ProductionDecrypts ==
  /\ IS_PRODUCTION
  /\ \E k \in DOMAIN calls : calls[k] = Call("decrypt_model", TRUE)

Chain ==
  << "Init", "IntegrityChecked", "DebuggerChecked", "InstrumentationChecked", "Ready",
     "Benchmarking", "Done" >>

Position(s) == CHOOSE k \in DOMAIN Chain : Chain[k] = s

\* this step moves the state to the one that follows it in Chain
Advances ==
  /\ state' # "Aborted"
  /\ Position(state') = Position(state) + 1

\* this step calls a gate function; GateFails: and the function does not pass
GateInvoked ==
  /\ Len(calls') = Len(calls) + 1
  /\ calls'[Len(calls')].fn \in GateFunctions

GateFails == GateInvoked /\ ~calls'[Len(calls')].passed

\* C2 as the specification states it: the state only advances along Chain,
\* one state at a time; a failed check moves it to Aborted; nothing follows
\* Aborted; from Ready on no gate function is called.
C2_StateMachine ==
  [][ /\ state # "Aborted"
      /\ state' = state \/ state' = "Aborted" \/ Advances
      /\ GateFails => state' = "Aborted"
      /\ Position(state) >= Position("Ready") => ~GateInvoked ]_vars

\* C2, amended: in production mode the state only advances along Chain, one
\* state at a time, and in development mode it moves from Init straight to
\* Ready without a gate function being called; a failed check moves it to
\* Aborted; nothing follows Aborted; from Ready on no gate function is
\* called.
C2_StateMachineByMode ==
  [][ /\ state # "Aborted"
      /\ \/ state' = state
         \/ state' = "Aborted"
         \/ Advances
         \/ ~IS_PRODUCTION /\ state = "Init" /\ state' = "Ready" /\ calls' = calls
      /\ IS_PRODUCTION /\ state' # state /\ state' # "Aborted" => Advances
      /\ GateFails => state' = "Aborted"
      /\ Position(state) >= Position("Ready") => ~GateInvoked ]_vars

\* a production run went through every state of Chain
C2_ProductionDone ==
  /\ IS_PRODUCTION
  /\ state = "Done"
  /\ GateRanBefore(Len(calls))

\* C3: after a gate function failed the process is over at that call: it is
\* the last call, the exit status is set and not 0, one line was printed,
\* and no stage of the benchmark ran.
C3_GateFailureIsFatal ==
  \A k \in DOMAIN calls :
    (calls[k].fn \in GateFunctions /\ ~calls[k].passed) =>
      /\ k = Len(calls)
      /\ state = "Aborted"
      /\ pc = "exited"
      /\ exit_code # None /\ exit_code[1] # 0
      /\ Len(stdout) = 1
      /\ raised = None
      /\ i = 0 /\ results = <<>>
      /\ aes_key = None /\ model_bytes = None /\ model = None

\* the process loop of detect_malicious_modules ended the process
C3_ProcessCheckFailed ==
  /\ instrumentation # None
  /\ instrumentation[1].check = "process"
  /\ calls[Len(calls)] = Call("detect_malicious_modules", FALSE)
  /\ exit_code = Some(1)

\* what the k-th check_integrity call of main.py reads: its file and the
\* registry value it is given
CheckedFile(k) == fs[integrity_checks[k].path]
Expected(k) == registry[1][integrity_checks[k].name]

\* the contents the model gives the file of the k-th check
Contents(k) ==
  IF integrity_checks[k].path = "model/model.pth.enc" THEN ProductionBlobs ELSE Sources

\* C4: a check_integrity call passes iff the file can be read and the
\* SHA-256 hex digest of its bytes is the registry value; a call that does
\* not pass ends the process with status 1; a file that differs from the
\* one the registry value was generated from does not pass.
C4_IntegrityIffDigestMatches ==
  \A k \in DOMAIN calls :
    calls[k].fn = "check_integrity" =>
      /\ calls[k].passed <=>
           /\ CheckedFile(k).error = "none"
           /\ \E e \in Sha256Table : e[1] = CheckedFile(k).data /\ e[2] = Expected(k)
      /\ ~calls[k].passed =>
           /\ state = "Aborted"
           /\ exit_code = Some(1)
           /\ CheckedFile(k).error = "none" =>
                stdout = <<"Integridade comprometida. Abortando.">>
           /\ CheckedFile(k).error = "FileNotFoundError" =>
                stdout = <<"Falha ao verificar integridade: [Errno 2] No such file or directory: '"
                             \o integrity_checks[k].path \o "'">>
           /\ CheckedFile(k).error = "PermissionError" =>
                stdout = <<"Falha ao verificar integridade: [Errno 13] Permission denied: '"
                             \o integrity_checks[k].path \o "'">>
      /\ \A c \in Contents(k) :
           (Expected(k) = registry_entry(c) /\ CheckedFile(k).data # c) => ~calls[k].passed

\* the encrypted model differs in one bit from the one its registry value was
\* generated from, and its check_integrity call ended the process
C4_OneBitChanged ==
  /\ fs["model/model.pth.enc"] = File(FlipBit(BaseBlob, 8 * Len(BaseBlob)))
  /\ registry = RegistryOf(BaseFs)
  /\ Len(calls) = Len(integrity_checks)
  /\ calls[Len(calls)] = Call("check_integrity", FALSE)
  /\ state = "Aborted"

\* the sub-checks of detect_and_block_debugger a host reaches when none
\* fires, in order
SubChecks(h) == IF h.os_name = "nt" THEN <<1, 2, 3, 4, 5, 6, 7>> ELSE <<1, 2, 3, 4, 6, 7>>

\* sub-check n fires in this environment
Fires(n) ==
  CASE n = 1 -> trace_hook(host)
    [] n = 2 -> stack_debugger(host)
    [] n = 3 -> debugpy_loaded(sys_modules)
    [] n = 4 -> pydevd_thread(host)
    [] n = 5 -> debugger_present(host)
    [] n = 6 -> debug_env_var(host) # 0
    [] n = 7 -> slow_loop(host)

\* detect_and_block_debugger evaluated the sub-checks of order one after the
\* other up to the first that fires, and passed iff none of them fires
EvaluatedInOrder(order) ==
  LET r == debugger[1]
      first == FirstIndex(order, Fires)
  IN  /\ r.evaluated = IF first = 0 THEN order ELSE SubSeq(order, 1, first)
      /\ r.exit = 0 <=> first = 0

\* C5 as the specification states it: on every host the seven sub-checks are
\* evaluated in their order up to the first that fires, and the function
\* passes only when none of the seven fires.
C5_SevenSubChecksInOrder ==
  debugger # None => EvaluatedInOrder(<<1, 2, 3, 4, 5, 6, 7>>)

\* C5, amended: the sub-checks are evaluated in their order up to the first
\* that fires, the platform debugger-present query (sub-check 5) only on a
\* host whose os.name is "nt"; the function passes only when none of the
\* sub-checks evaluated fires.
C5_SubChecksInOrderByPlatform ==
  debugger # None => EvaluatedInOrder(SubChecks(host))

\* on Windows the platform query fired after four sub-checks that did not
C5_PlatformQueryFired ==
  /\ debugger # None
  /\ host.os_name = "nt"
  /\ debugger[1].exit = 1
  /\ debugger[1].evaluated = <<1, 2, 3, 4, 5>>
  /\ Fires(6) /\ Fires(7)

\* C6 as the specification states it: when PYTHONBREAKPOINT or PYDEV_DEBUG is
\* in the environment, whatever its value, detect_and_block_debugger does
\* not pass.
C6_AnyDebugVariableDetected ==
  (debugger # None
   /\ \E v \in DOMAIN debug_env_vars : host.environ[debug_env_vars[v]] # None)
    => debugger[1].exit = 1

\* the name of module m contains an entry of suspicious_modules, in any
\* letter case
Blocklisted(m) ==
  \E s \in DOMAIN suspicious_modules : str_in(suspicious_modules[s], lower(m.name))

\* the lower-cased absolute path of the file of module m
Resolved(m) == lower(abspath(m.file[1], host.cwd))

\* the path of module m starts with an allowed root
UnderAllowedRoot(m) ==
  /\ m.file # None
  /\ \E p \in DOMAIN allowed_paths(host) : startswith(Resolved(m), allowed_paths(host)[p])

\* module m has a file and its path starts with no allowed root
OutsideAllowedRoots(m) == m.file # None /\ ~UnderAllowedRoot(m)

\* C7: when a loaded module has a blocklisted name, in any letter case,
\* detect_malicious_modules ends the process at the first such module; the
\* module its path loop reports is never one whose path starts with an
\* allowed root.
C7_ModuleNamesAndAllowedRoots ==
  instrumentation # None =>
    LET r == instrumentation[1] IN
    /\ (\E k \in DOMAIN sys_modules : Blocklisted(sys_modules[k])) =>
         /\ r.exit = 1
         /\ r.check = "module_name"
         /\ Blocklisted(sys_modules[r.at])
         /\ \A j \in 1..(r.at - 1) : ~Blocklisted(sys_modules[j])
    /\ r.check = "module_name" => Blocklisted(sys_modules[r.at])
    /\ r.check = "module_path" => ~UnderAllowedRoot(sys_modules[r.at])
    /\ r.exit = 0 => \A k \in DOMAIN sys_modules : ~Blocklisted(sys_modules[k])

\* a module whose name has a blocklisted substring in upper case was
\* reported, after a module under an allowed root that was not
C7_MixedCaseNameFlagged ==
  /\ instrumentation # None
  /\ instrumentation[1].check = "module_name"
  /\ sys_modules[instrumentation[1].at].name # lower(sys_modules[instrumentation[1].at].name)
  /\ \E j \in 1..(instrumentation[1].at - 1) :
       /\ UnderAllowedRoot(sys_modules[j])
       /\ sys_modules[j].name = <<"j","s","o","n">>

\* the exemptions of the path loop: the entry module and a path with
\* "dist_protected" in it; ExemptByRuntime: a module of the PyArmor runtime
ExemptByEntryOrTree(m) ==
  \/ m.name = <<"_","_","m","a","i","n","_","_">>
  \/ str_in(<<"d","i","s","t","_","p","r","o","t","e","c","t","e","d">>, Resolved(m))

ExemptByRuntime(m) == str_in(<<"p","y","a","r","m","o","r","_","r","u","n","t","i","m","e">>, m.name)

\* when no module name is blocklisted, the path loop ends the process iff a
\* module lies outside the allowed roots and is not exempt, and it reports
\* such a module
PathLoopFailsUnless(Exempt(_)) ==
  LET r == instrumentation[1] IN
  r.check # "module_name" =>
    /\ r.check = "module_path" <=>
         \E k \in DOMAIN sys_modules :
           OutsideAllowedRoots(sys_modules[k]) /\ ~Exempt(sys_modules[k])
    /\ r.check = "module_path" =>
         OutsideAllowedRoots(sys_modules[r.at]) /\ ~Exempt(sys_modules[r.at])

\* C8 as the specification states it: a module outside every allowed root
\* makes detect_malicious_modules fail unless it is the entry module or its
\* path lies in the protected deployment.
C8_TwoExemptions ==
  instrumentation # None => PathLoopFailsUnless(ExemptByEntryOrTree)

\* C8, amended: a module whose lower-cased absolute path starts with no
\* allowed root makes detect_malicious_modules fail unless it is one of
\* three exemptions: the entry module __main__, a module whose name contains
\* "pyarmor_runtime", or a module whose path contains "dist_protected".
C8_ThreeExemptions ==
  instrumentation # None =>
    PathLoopFailsUnless(LAMBDA m : ExemptByEntryOrTree(m) \/ ExemptByRuntime(m))

\* detect_malicious_modules passed with a PyArmor runtime module outside the
\* allowed roots and outside the deployment
C8_RuntimeModulePassed ==
  /\ instrumentation # None
  /\ instrumentation[1].exit = 0
  /\ \E k \in DOMAIN sys_modules :
       /\ OutsideAllowedRoots(sys_modules[k])
       /\ ExemptByRuntime(sys_modules[k])
       /\ ~ExemptByEntryOrTree(sys_modules[k])

\* process p could be read and its name or its joined command line contains
\* an entry of suspicious_processes
Forbidden(p) ==
  /\ p.error = "none"
  /\ \E s \in DOMAIN suspicious_processes :
       \/ str_in(suspicious_processes[s], proc_name(p))
       \/ str_in(suspicious_processes[s], proc_cmd(p))

\* C9: when the module loops pass, detect_malicious_modules ends the process
\* iff a process that can be read has a forbidden name or command line, at
\* the first such process; a process that raises NoSuchProcess or
\* AccessDenied is never the one reported and the processes after it are
\* still examined.
C9_ForbiddenProcesses ==
  instrumentation # None =>
    LET r == instrumentation[1] IN
    r.check \notin { "module_name", "module_path" } =>
      /\ r.exit = 1 <=> \E k \in DOMAIN processes : Forbidden(processes[k])
      /\ r.exit = 1 =>
           /\ r.check = "process"
           /\ Forbidden(processes[r.at])
           /\ processes[r.at].error = "none"
           /\ \A j \in 1..(r.at - 1) : ~Forbidden(processes[j])

\* a forbidden process was reported after a process that raised AccessDenied
\* with a forbidden name
C9_ReportedAfterSkipped ==
  /\ instrumentation # None
  /\ instrumentation[1].check = "process"
  /\ \E j \in 1..(instrumentation[1].at - 1) :
       /\ processes[j].error = "AccessDenied"
       /\ processes[j].name = Some(<<"x","6","4","d","b","g">>)

\* the files encrypt_model writes, each with one bit of its ciphertext or of
\* its tag flipped
TamperedBlobs ==
  UNION { { FlipBit(e[2], b) : b \in TamperBits(e[2]) } : e \in EncryptedModels }

\* C10: decrypt_model of an encrypted model with one bit of its ciphertext
\* or tag flipped raises InvalidTag and returns no bytes, for every key,
\* nonce and model.
C10_TamperedModelFailsAuthentication ==
  \A k \in DOMAIN calls :
    (/\ calls[k].fn = "decrypt_model"
     /\ fs["model/model.pth.enc"].error = "none"
     /\ fs["model/model.pth.enc"].data \in TamperedBlobs) =>
      /\ ~calls[k].passed
      /\ k = Len(calls)
      /\ raised = Some("InvalidTag")
      /\ model_bytes = None
      /\ exit_code = Some(1)

\* the file of the 17-byte model
LongBlob == encrypt_model(Key1, Nonce1, LongModel)

\* decrypt_model was called, under the key of the encryption, on the
\* 17-byte model with the last bit of the tag flipped
C10_TagBitFlipped ==
  /\ fs["model/model.pth.enc"] = File(FlipBit(LongBlob, 8 * Len(LongBlob)))
  /\ calls # <<>>
  /\ calls[Len(calls)] = Call("decrypt_model", FALSE)
  /\ calls[Len(calls) - 1] = Call("decrypt_aes_key", TRUE)
  /\ raised = Some("InvalidTag")

\* the encryptions whose file and wrapped key the process finds all along
Deployed ==
  { e \in EncryptionFiles :
      /\ host.changes = {}
      /\ fs["model/model.pth.enc"] = File(e.file)
      /\ fs["key/aes_key.enc"] = File(Wrapped("A", e.aes_key))
      /\ fs["key/private.pem"] = File(PrivatePem("A")) }

\* C11: the file encrypt_model writes is the 12-byte nonce followed by the
\* ciphertext and the 16-byte tag, with no length header, and decrypt_model
\* of that file under the key of the encryption returns exactly the model
\* that was encrypted, for every key, nonce and model, the empty one
\* included.
C11_DecryptReturnsModel ==
  \A e \in Deployed :
    /\ Len(e.aes_key) = BlockBytes /\ Len(e.nonce) = NonceBytes
    /\ SubSeq(e.file, 1, NonceBytes) = e.nonce
    /\ Len(e.file) = NonceBytes + Len(e.model_data) + TagBytes
    /\ \A k \in DOMAIN calls : calls[k].fn = "decrypt_model" => calls[k].passed
    /\ model_bytes # None => model_bytes = Some(e.model_data)
    /\ pc \in { "load_model_from_bytes", "inference", "cleanup" } => model_bytes # None

\* the file of the empty model
EmptyBlob == encrypt_model(Key1, Nonce1, <<>>)

\* decrypt_model returned the empty model from the 28 bytes encrypt_model
\* wrote for it
C11_EmptyModelDecrypted ==
  /\ fs["model/model.pth.enc"] = File(EmptyBlob)
  /\ Len(EmptyBlob) = NonceBytes + TagBytes
  /\ model_bytes = Some(<<>>)
  /\ calls[Len(calls)] = Call("decrypt_model", TRUE)

\* whether torch.load returns a value for the bytes
Loads(serialized) == torch_load(serialized, host).raised = "none"

\* the four shapes of a loaded value that load_model_from_bytes dispatches
\* on, 0 for every other value: 1 a DetectionModel, 2 a dict whose "model"
\* entry is a DetectionModel, 3 a dict whose "model" entry is a dict, 4 a
\* dict without a "model" entry
Shape(serialized) ==
  IF ~Loads(serialized) THEN 0
  ELSE CASE serialized[2] \in {1, 2} -> serialized[2]
         [] serialized[2] \in {3, 8} -> 3
         [] serialized[2] \in {4, 7} -> 4
         [] OTHER -> 0

\* whether the dict of shape 3 or 4 has the parameters of the skeleton
Fits(serialized) == Loads(serialized) /\ serialized[2] \in {3, 4}

\* the model each shape gives, before model.eval()
Variant(shape) ==
  CASE shape = 1 -> Model("loaded", FALSE, FALSE)
    [] shape = 2 -> Model("loaded[model]", FALSE, FALSE)
    [] shape = 3 -> Model("loaded[model]", TRUE, FALSE)
    [] shape = 4 -> Model("loaded", TRUE, FALSE)

\* whether the variant of the shape can be completed on this host: a
\* DetectionModel is taken as it is, a dict needs the skeleton of
\* 'yolov8n.yaml' and parameters that fit it
Installs(serialized) ==
  \/ Shape(serialized) \in {1, 2}
  \/ Shape(serialized) \in {3, 4} /\ host.yolo_config /\ Fits(serialized)

\* the exception load_model_from_bytes ends with when no model is returned:
\* that of torch.load when it raised, TypeError for a loaded value of no
\* recognised shape, else that of the first call that failed: the skeleton
\* constructor, then load_state_dict
LoadError(serialized) ==
  IF torch_load(serialized, host).raised # "none" THEN torch_load(serialized, host).raised
  ELSE IF Shape(serialized) = 0 THEN "TypeError"
  ELSE load_state_dict(DetectionModel("yolov8n.yaml", host), "loaded", Fits(serialized)).raised

\* C13: load_model_from_bytes dispatches on the shape of the value torch.load
\* returned to one of four variants: the DetectionModel itself, the
\* DetectionModel under "model", a fresh DetectionModel('yolov8n.yaml') with
\* the dict under "model" loaded, or such a skeleton with the dict itself
\* loaded.  A model is returned exactly when the variant can be completed,
\* it is the model of that variant, and it is in evaluation mode.  A loaded
\* value of any other shape raises TypeError; bytes torch.load rejects, a
\* skeleton that cannot be built and a dict that does not fit it end with the
\* exception of the library; in each of these cases no model is bound and
\* the process ends.
C13_LoadDispatch ==
  /\ model # None =>
       /\ model_bytes # None
       /\ Installs(model_bytes[1])
       /\ model[1] = [Variant(Shape(model_bytes[1])) EXCEPT !.eval = TRUE]
  /\ (calls # <<>> /\ calls[Len(calls)].fn = "load_model_from_bytes") =>
       /\ calls[Len(calls)].passed <=> Installs(model_bytes[1])
       /\ calls[Len(calls)].passed => model # None
       /\ ~calls[Len(calls)].passed =>
            /\ model = None
            /\ state = "Aborted"
            /\ raised = Some(LoadError(model_bytes[1]))
            /\ (Loads(model_bytes[1]) /\ Shape(model_bytes[1]) = 0) <=> raised = Some("TypeError")
            /\ model_bytes[1] = <<>> => raised = Some("EOFError")

\* a state dict was loaded into a fresh skeleton, which was put into
\* evaluation mode
C13_StateDictInstalled ==
  /\ model_bytes = Some(<<80, 4>>)
  /\ host.yolo_config
  /\ model = Some(Model("loaded", TRUE, TRUE))
  /\ calls[Len(calls)] = Call("load_model_from_bytes", TRUE)

\* the functions run_once calls, in the order of its stages
Stages == << "decrypt_aes_key", "decrypt_model", "load_model_from_bytes", "model" >>

\* the calls of the stages made so far, in order
StageCalls == SelectSeq(calls, LAMBDA c : c.fn \in { Stages[s] : s \in DOMAIN Stages })

\* the iterations that were started: one decrypt_aes_key call each
Started == Len(SelectSeq(calls, LAMBDA c : c.fn = "decrypt_aes_key"))

\* reading k of the eight clock readings of iteration r (r = 1 the first)
Reading(r, k) == time_time(host, 8 * (r - 1) + k)

\* the metrics of iteration r: from the clock readings around its stages
Record(r) ==
  << <<"decryption_time", Reading(r, 3) - Reading(r, 2)>>,
     <<"load_time", Reading(r, 5) - Reading(r, 4)>>,
     <<"inference_time", Reading(r, 7) - Reading(r, 6)>>,
     <<"total_time", Reading(r, 8) - Reading(r, 1)>> >>

\* C14: main() with runs = n executes run_once exactly n times, one after
\* the other, and the list it exports holds exactly n records, record k
\* that of the k-th execution; with n = 0 nothing is executed and the list
\* is empty.
C14_ExactlyRunsRecordsInOrder ==
  /\ i <= runs
  /\ Len(results) = i
  /\ \A k \in DOMAIN results : results[k] = Record(k)
  /\ Started \in { i, i + 1 }
  /\ pc = "loop" => Started = i
  /\ csv # None =>
       /\ Len(results) = runs
       /\ Started = runs
       /\ Len(StageCalls) = Len(Stages) * runs
       /\ Len(csv[1].rows) = runs
  /\ runs = 0 => results = <<>> /\ StageCalls = <<>>

\* two iterations were made and exported, and their records differ
C14_TwoRunsExported ==
  /\ runs = 2
  /\ state = "Done"
  /\ csv # None
  /\ Len(results) = 2
  /\ results[1] # results[2]
  /\ Started = 2

\* in every iteration the stages are called in the order of Stages
StagesInOrder ==
  \A c \in DOMAIN StageCalls : StageCalls[c].fn = Stages[((c - 1) % Len(Stages)) + 1]

\* C15 as the specification states it: run_once calls its stages in order
\* and its record has five durations, one for each of the four stages and
\* the total, in this column order.
C15_FiveDurations ==
  /\ StagesInOrder
  /\ \A k \in DOMAIN results :
       /\ Len(results[k]) = Len(Stages) + 1
       /\ results[k][Len(results[k])][1] = "total_time"

\* C15, amended: run_once calls its stages in the order decrypt_aes_key,
\* decrypt_model, load_model_from_bytes, model and its record has four
\* durations in the column order decryption_time, load_time, inference_time,
\* total_time: decryption_time is one measurement that spans the unwrap and
\* the decryption together, load_time and inference_time are measured around
\* their stage, and total_time is measured on its own from the first
\* reading of the iteration to the last.
C15_FourDurations ==
  /\ StagesInOrder
  /\ \A k \in DOMAIN results : results[k] = Record(k)
  /\ csv # None =>
       /\ results # <<>> =>
            csv[1].columns = <<"decryption_time", "load_time", "inference_time", "total_time">>
       /\ \A k \in DOMAIN results :
            csv[1].rows[k] = << Record(k)[1][2], Record(k)[2][2], Record(k)[3][2], Record(k)[4][2] >>

\* the file was written with the four columns and a row for each iteration,
\* the total of the first larger than the sum of its three stage times
C15_FourColumnsExported ==
  /\ csv # None
  /\ csv[1].columns = <<"decryption_time", "load_time", "inference_time", "total_time">>
  /\ Len(csv[1].rows) = runs
  /\ csv[1].rows[1][4] > csv[1].rows[1][1] + csv[1].rows[1][2] + csv[1].rows[1][3]
  /\ csv[1].rows[1][1] > 0

\* C16 as the specification states it: whatever the clock returns, every
\* duration of every record is at least 0 and total_time is at least the
\* sum of the stage times.
C16_DurationsNonNegative ==
  \A k \in DOMAIN results :
    /\ \A f \in DOMAIN results[k] : results[k][f][2] >= 0
    /\ results[k][4][2] >= results[k][1][2] + results[k][2][2] + results[k][3][2]

\* C17 as the specification states it: during the load stage and the
\* consume stage of an iteration no content key exists: aes_key was dropped
\* when decrypt_model returned.
C17_KeyDroppedAfterDecrypt ==
  pc \in { "load_model_from_bytes", "inference" } => aes_key = None

\* C17, amended: within each iteration the content key is bound from the
\* return of decrypt_aes_key to the cleanup at the end of run_once: it
\* exists during the decryption, the load stage and the consume stage, and
\* it is dropped by the del statements after total_time was measured, so
\* that no content key exists between two iterations or after the last.
C17_KeyHeldUntilCleanup ==
  /\ pc \in { "decrypt_model", "load_model_from_bytes", "inference", "cleanup" } =>
       /\ aes_key # None
       /\ files_at(fs, host.changes, i)["key/aes_key.enc"].error = "none"
       /\ aes_key = Some(files_at(fs, host.changes, i)["key/aes_key.enc"].data.key)
  /\ pc \in { "import", "main", "loop", "decrypt_aes_key" } => aes_key = None
  /\ state = "Done" => aes_key = None

\* the model was loaded and is about to be called, and the content key is
\* still bound
C17_KeyBoundAtInference ==
  /\ pc = "inference"
  /\ aes_key = Some(Key1)
  /\ model # None
  /\ calls[Len(calls)] = Call("load_model_from_bytes", TRUE)

\* C18: when an iteration begins, every iteration before it has its record
\* in results and none of its transients (aes_key, model_bytes, model,
\* dummy_input) is bound any more; the key decrypt_model is given and the
\* bytes load_model_from_bytes is given are those the stage before it
\* returned in the same iteration.
C18_IterationsShareNothing ==
  /\ pc \in { "loop", "decrypt_aes_key" } =>
       /\ Len(results) = i
       /\ \A k \in DOMAIN results : Len(results[k]) = 4
       /\ aes_key = None /\ model_bytes = None /\ model = None /\ dummy_input = None
  /\ pc = "decrypt_model" =>
       /\ calls[Len(calls)] = Call("decrypt_aes_key", TRUE)
       /\ model_bytes = None /\ model = None /\ dummy_input = None
  /\ pc = "load_model_from_bytes" =>
       /\ calls[Len(calls)] = Call("decrypt_model", TRUE)
       /\ calls[Len(calls) - 1] = Call("decrypt_aes_key", TRUE)
       /\ model = None /\ dummy_input = None

\* the second iteration has begun: the record of the first is in results and
\* nothing of the first is bound
C18_SecondIterationBegun ==
  /\ i = 1
  /\ pc = "decrypt_aes_key"
  /\ Len(results) = 1
  /\ aes_key = None /\ model_bytes = None /\ model = None /\ dummy_input = None
  /\ Started = 1

\* the functions of the stages that can fail
FailingStages == { "decrypt_aes_key", "decrypt_model", "load_model_from_bytes" }

\* C19: when decrypt_aes_key, decrypt_model or load_model_from_bytes raises
\* in an iteration, that call is the last call of the process: no stage is
\* called again, no further iteration starts, the process ends with status
\* 1, and results/benchmark.csv is never written, so that the records of the
\* iterations completed before stay unexported.
C19_StageFailureAbortsSession ==
  \A k \in DOMAIN calls :
    (calls[k].fn \in FailingStages /\ ~calls[k].passed) =>
      /\ k = Len(calls)
      /\ state = "Aborted"
      /\ pc = "exited"
      /\ raised # None
      /\ exit_code = Some(1)
      /\ csv = None
      /\ Len(results) = i
      /\ Started = i + 1
      /\ i < runs

\* load_model_from_bytes raised in the second iteration: the record of the
\* first is in results and no file was written
C19_SecondIterationFailed ==
  /\ i = 1
  /\ Len(results) = 1
  /\ calls[Len(calls)] = Call("load_model_from_bytes", FALSE)
  /\ raised = Some("TypeError")
  /\ csv = None
  /\ state = "Aborted"

\* C20 as the specification states it: the private key is loaded once, at
\* startup before the first iteration begins, and not again.
C20_PrivateKeyLoadedOnce ==
  /\ Len(private_key_loads) <= 1
  /\ pc = "decrypt_aes_key" => Len(private_key_loads) = 1

\* C20, amended: the private key is not loaded at startup; every call of
\* decrypt_aes_key reads key/private.pem and parses it anew, so the key is
\* loaded once in each iteration, inside the iteration, and each unwrap uses
\* the key its own call loaded.
C20_PrivateKeyLoadedEveryIteration ==
  /\ pc \in { "import", "main" } => private_key_loads = <<>>
  /\ \A k \in DOMAIN private_key_loads : private_key_loads[k] = k - 1
  /\ Len(private_key_loads) \in { Started - 1, Started }
  /\ Len(private_key_loads) = Started - 1 =>
       /\ Started = i + 1
       /\ pc \in { "decrypt_aes_key", "exited" }
       /\ pc = "exited" =>
            /\ calls[Len(calls)] = Call("decrypt_aes_key", FALSE)
            /\ files_at(fs, host.changes, i)["key/aes_key.enc"].error # "none"
                 \/ files_at(fs, host.changes, i)["key/private.pem"].error # "none"
  /\ \A c \in DOMAIN calls :
       calls[c] = Call("decrypt_aes_key", TRUE) => private_key_loads # <<>>

\* the private key was loaded in the first iteration and again in the second
C20_LoadedAgainInSecondIteration ==
  /\ private_key_loads = <<0, 1>>
  /\ i = 1
  /\ calls[Len(calls)] = Call("decrypt_aes_key", TRUE)

\* sub-checks 1 to 4 of detect_and_block_debugger do not fire in this
\* environment, so the function gets to the platform sub-check
PlatformSubCheckReached == ~Fires(1) /\ ~Fires(2) /\ ~Fires(3) /\ ~Fires(4)

\* C21: in the platform debugger-present sub-check of
\* detect_and_block_debugger, a platform without the query (os.name is not
\* "nt") or a query that raises is not a failure: the function goes on to
\* the environment-variable sub-check and, when that does not fire, to the
\* timing sub-check, and it passes iff neither fires. A query that returns
\* nonzero always ends the process with status 1, the sub-check's own line
\* being the last thing printed: the handler that swallows the errors of
\* the query does not swallow the exit.
C21_QueryErrorSwallowedExitNot ==
  (debugger # None /\ PlatformSubCheckReached) =>
    LET r == debugger[1]
    IN  IF host.os_name = "nt" /\ host.IsDebuggerPresent = "nonzero"
        THEN /\ r.evaluated = <<1, 2, 3, 4, 5>>
             /\ r.exit = 1
             /\ r.out = <<"Debugger detectado via IsDebuggerPresent. Abortando.">>
             /\ state = "Aborted"
             /\ exit_code = Some(1)
             /\ stdout[Len(stdout)] = "Debugger detectado via IsDebuggerPresent. Abortando."
             /\ calls[Len(calls)] = Call("detect_and_block_debugger", FALSE)
        ELSE /\ r.evaluated = (IF host.os_name = "nt" THEN <<1, 2, 3, 4, 5>> ELSE <<1, 2, 3, 4>>)
                                \o (IF Fires(6) THEN <<6>> ELSE <<6, 7>>)
             /\ r.exit = 0 <=> ~Fires(6) /\ ~Fires(7)
             /\ \A l \in DOMAIN r.out :
                  r.out[l] # "Debugger detectado via IsDebuggerPresent. Abortando."

\* on Windows the query raised and the function went on: the timing
\* sub-check was evaluated and the function passed
C21_QueryRaisedChecksWentOn ==
  /\ debugger # None
  /\ host.os_name = "nt"
  /\ host.IsDebuggerPresent = "raises"
  /\ debugger[1].evaluated = <<1, 2, 3, 4, 5, 6, 7>>
  /\ debugger[1].exit = 0
  /\ state = "DebuggerChecked"

\* the calls of the three gate functions made so far, in order
GateCalls == SelectSeq(calls, LAMBDA c : c.fn \in GateFunctions)

\* the gate functions in the order the module body of main.py calls them
GateOrder ==
  [k \in DOMAIN integrity_checks |-> "check_integrity"]
    \o <<"detect_and_block_debugger", "detect_malicious_modules">>

\* the absolute path of the directory of main.py has "dist_protected" in it
InProtectedDirectory ==
  str_in(<<"d","i","s","t","_","p","r","o","t","e","c","t","e","d">>, abspath(dirname(main_file), host.cwd))

\* C22: the gate functions run if and only if the absolute path of the
\* directory of main.py has the substring "dist_protected". With it, the
\* module body calls check_integrity (three times),
\* detect_and_block_debugger and detect_malicious_modules in this order
\* before anything else, each one unless an earlier one, or the import of
\* the registry names that precedes them, ended the process, and main()
\* starts only after all of them passed. Without it
\* (development mode) none of them is ever called, the development line is
\* printed, the first call of the benchmark is decrypt_aes_key, followed by
\* decrypt_model, and the process ends early only through an exception of
\* the benchmark itself.
C22_GateRunsIffProtectedDirectory ==
  /\ GateCalls # <<>> => InProtectedDirectory
  /\ InProtectedDirectory =>
       /\ GateCalls = SubSeq(calls, 1, Len(GateCalls))
       /\ Len(GateCalls) <= Len(GateOrder)
       /\ \A k \in DOMAIN GateCalls :
            /\ GateCalls[k].fn = GateOrder[k]
            /\ k < Len(GateCalls) => GateCalls[k].passed
       /\ pc # "import" =>
            \/ /\ Len(GateCalls) = Len(GateOrder)
               /\ \A k \in DOMAIN GateCalls : GateCalls[k].passed
            \/ /\ GateCalls # <<>>
               /\ ~GateCalls[Len(GateCalls)].passed
               /\ calls = GateCalls
               /\ state = "Aborted"
               /\ raised = None
            \/ /\ import_registry(registry).raised # "none"
               /\ calls = <<>>
               /\ state = "Aborted"
               /\ raised = Some(import_registry(registry).raised)
       /\ GateCalls # <<>> => import_registry(registry).raised = "none"
  /\ ~InProtectedDirectory =>
       /\ debugger = None
       /\ instrumentation = None
       /\ pc # "import" =>
            stdout[1] = "Modo desenvolvimento - skipando checagem de integridade e protecao."
       /\ calls # <<>> => calls[1].fn = "decrypt_aes_key"
       /\ \A k \in DOMAIN calls :
            (calls[k] = Call("decrypt_aes_key", TRUE) /\ k < Len(calls)) =>
              calls[k + 1].fn = "decrypt_model"
       /\ state = "Aborted" => raised # None

\* a development run whose __file__ names dist_protected but whose
\* directory is elsewhere: no gate function was called and the model was
\* decrypted
C22_DevelopmentDecrypted ==
  /\ ~InProtectedDirectory
  /\ str_in(<<"d","i","s","t","_","p","r","o","t","e","c","t","e","d">>, main_file)
  /\ GateCalls = <<>>
  /\ Len(calls) >= 2
  /\ calls[1] = Call("decrypt_aes_key", TRUE)
  /\ calls[2] = Call("decrypt_model", TRUE)

====
